---- MODULE Spec2Model ----
(***************************************************************************)
(* Model of erkineren/repository-monitor.                                  *)
(*                                                                         *)
(* The repository holds two builds of the same program:                    *)
(*   impl = "main"     the single-file build, src/main.go                  *)
(*   impl = "monitor"  the layered build, src/cmd/monitor/main.go with     *)
(*                     internal/store/postgres (src/unnamed/part_000),     *)
(*                     internal/github (src/internal/github) and           *)
(*                     internal/bot (src/unnamed/part_001)                 *)
(* Both use the same PostgreSQL tables; the model keeps the tables, the    *)
(* upstream notification threads, the clock and the position of the       *)
(* notification goroutine.                                                 *)
(***************************************************************************)
EXTENDS Bags, FiniteSets, Integers, Sequences, TLC

(***************************************************************************)
(* Bounds of the model.                                                    *)
(***************************************************************************)
MaxInterval == 1
MaxSeconds == 2
MaxHours == 1

(***************************************************************************)
(* Program constants.                                                      *)
(***************************************************************************)
Second == 1
Hour == 3600
MaxBodyLen == 300
KeptBodyLen == 297

Impls == {"main", "monitor"}
Intervals == 1..MaxInterval

(***************************************************************************)
(* The world the program runs against: one chat with one GitHub account,  *)
(* and the logins, items and bodies GitHub can answer with.                *)
(***************************************************************************)
ChatIDs == {42}
Recipient == "bob"
Paused == "carol"
Other == "dave"
OtherChat == 43
OtherToken == "ghp_2"
Logins == {"bob", "alice"}
Tokens == {"ghp_1"}

Rep(ch, n) == [i \in 1..n |-> ch]
Ellipsis == <<".", ".", ".">>
ShortBody == <<"h", "i">>
LongBody == Rep("x", MaxBodyLen + 1)
Bodies == {ShortBody, LongBody}

PullRequest1 ==
    [kind |-> "PullRequest", owner |-> "o", repo |-> "r", number |-> 1,
     title |-> "T1", html_url |-> "https://github.com/o/r/pull/1",
     url |-> "https://api.github.com/repos/o/r/pulls/1"]
Issue2 ==
    [kind |-> "Issue", owner |-> "o", repo |-> "r", number |-> 2,
     title |-> "T2", html_url |-> "https://github.com/o/r/issues/2",
     url |-> "https://api.github.com/repos/o/r/issues/2"]
ItemOf(number) == IF number = 1 THEN PullRequest1 ELSE Issue2

(***************************************************************************)
(* github.Notification: the fields of a thread the program reads.          *)
(* latest_comment_url is kept by its shape:                                *)
(*   ""        no URL                                                      *)
(*   "item"    a URL without "/comments/"                                  *)
(*   "issues"  .../issues/comments/<id>                                    *)
(*   "pulls"   .../pulls/comments/<id>                                     *)
(*   "other"   a URL with "/comments/" of neither shape                    *)
(***************************************************************************)
Reasons == {"mention", "review_requested", "subscribed"}
CommentURLs == {"", "item", "issues", "pulls", "other"}

Thread(id, reason, subjectType, number, commentURL) ==
    [id |-> id, reason |-> reason, subject_type |-> subjectType,
     number |-> number, latest_comment_url |-> commentURL]

ThreadShapes ==
    {Thread("t1", "review_requested", "PullRequest", 1, "")}
    \cup {Thread("t1", "review_requested", "Issue", 2, "")}
    \cup {Thread("t1", "mention", "PullRequest", 1, u) : u \in CommentURLs}
    \cup {Thread("t1", "mention", "Issue", 2, u) : u \in CommentURLs \ {"pulls"}}
    \cup {Thread("t1", "mention", "Release", 1, "")}
    \cup {Thread("t1", "subscribed", "PullRequest", 1, "")}

(***************************************************************************)
(* What GitHub answers while one thread is examined.                       *)
(*   detail      outcome of the first PullRequests.Get / Issues.Get        *)
(*   state, merged, user, body   the item as GitHub holds it               *)
(*   second      outcome of the second Get of the same item                *)
(*   list        outcome of Issues.ListComments                            *)
(*   comments    the comments on the item: who wrote each, whether it was  *)
(*               posted before or after the mention, whether it is an      *)
(*               issue comment or a review comment of a pull request, and  *)
(*               the page of the issue-comment listing it falls on         *)
(*   getComment  outcome of Issues.GetComment / PullRequests.GetComment    *)
(*   commentUser, commentBody   the referenced comment                     *)
(*   mark        outcome of Activity.MarkThreadRead                        *)
(***************************************************************************)
Outcomes == {"ok", "error"}
Comment(login, when, kind, page) ==
    [login |-> login, when |-> when, kind |-> kind, page |-> page]
CommentLists ==
    {{}, {Comment("alice", "after", "issue", 1)},
     {Comment("bob", "before", "issue", 1)},
     {Comment("bob", "after", "issue", 1)},
     {Comment("bob", "after", "review", 1)},
     {Comment("bob", "after", "issue", 2)}}

Responses ==
    [detail : {"ok", "notfound", "error"},
     state : {"open", "closed"}, merged : BOOLEAN, user : Logins,
     body : Bodies, second : Outcomes,
     list : Outcomes, comments : CommentLists,
     getComment : Outcomes, commentUser : Logins, commentBody : Bodies,
     mark : Outcomes]

(***************************************************************************)
(* Notification (main.go) / models.Notification.                           *)
(* A message is the tuple of the format and the arguments of the           *)
(* fmt.Sprintf call that builds it.                                        *)
(***************************************************************************)
Notification(type, message, url) ==
    [Type |-> type, Message |-> message, URL |-> url]

RepoInfo(item) == <<item.owner, item.repo>>

\* main.go 501-503 and 551-553: len(s) > 300 => s[:297] + "..."
Truncate(s) ==
    IF Len(s) > MaxBodyLen THEN SubSeq(s, 1, KeptBodyLen) \o Ellipsis ELSE s

(***************************************************************************)
(* checkGitHubNotifications (main.go), the body of the loop over the       *)
(* listed threads: what one thread n yields when GitHub answers r.         *)
(*   out         the notifications appended (none or one)                  *)
(*   markCalled  whether Activity.MarkThreadRead was called for n          *)
(***************************************************************************)
NoAlert(markCalled) == [out |-> <<>>, markCalled |-> markCalled]
Alert(n, message) ==
    [out |-> <<Notification(n.reason, message, ItemOf(n.number).html_url)>>,
     markCalled |-> FALSE]

\* main.go 384 and 402
isClosed(n, r) ==
    IF n.subject_type = "PullRequest"
    THEN r.state = "closed" \/ r.merged
    ELSE r.state = "closed"

\* main.go 454: Issues.ListComments with nil options answers with the first
\* page of the issue comments of the item
ListComments(comments) == {c \in comments : c.kind = "issue" /\ c.page = 1}

\* main.go 452-462
hasReplied(r, username) ==
    /\ r.list = "ok"
    /\ \E c \in ListComments(r.comments) : c.login = username

\* main.go 425-446
reviewRequested(n, r) ==
    LET item == ItemOf(n.number)
        requestedBy ==
            IF n.subject_type = "PullRequest" /\ r.second = "ok"
            THEN r.user ELSE ""
    IN  IF requestedBy # ""
        THEN Alert(n, <<"requested your review", RepoInfo(item), item.title,
                        requestedBy>>)
        ELSE Alert(n, <<"Your review was requested", RepoInfo(item),
                        item.title>>)

\* main.go 472-511
descriptionMention(n, r, username) ==
    LET item == ItemOf(n.number)
        fetched == n.subject_type \in {"PullRequest", "Issue"} /\ r.second = "ok"
        authorUsername == IF fetched THEN r.user ELSE ""
        mentionContent == IF fetched THEN r.body ELSE <<>>
    IN  IF authorUsername = username
        THEN NoAlert(TRUE)
        ELSE Alert(n, <<"mentioned you in the description", RepoInfo(item),
                        item.title, authorUsername, n.subject_type,
                        Truncate(mentionContent)>>)

\* main.go 512-561
commentMention(n, r, username) ==
    LET item == ItemOf(n.number)
        called == n.latest_comment_url \in {"issues", "pulls"}
        err == called /\ r.getComment = "error"
        login == IF called THEN r.commentUser ELSE ""
        body == IF called THEN r.commentBody ELSE <<>>
    IN  IF err THEN NoAlert(FALSE)
        ELSE IF login = username THEN NoAlert(TRUE)
        ELSE Alert(n, <<"mentioned you in a comment", RepoInfo(item),
                        item.title, login, Truncate(body)>>)

\* main.go 448-561
mention(n, r, username) ==
    IF hasReplied(r, username) THEN NoAlert(TRUE)
    ELSE IF n.latest_comment_url \in {"", "item"}
         THEN descriptionMention(n, r, username)
         ELSE commentMention(n, r, username)

\* main.go 350-571
processThreadKeepingMissing(n, r, username) ==
    IF n.reason \notin {"mention", "review_requested"} THEN NoAlert(FALSE)
    ELSE IF n.subject_type \notin {"PullRequest", "Issue"} THEN NoAlert(FALSE)
    ELSE IF r.detail \in {"notfound", "error"} THEN NoAlert(FALSE)
    ELSE IF isClosed(n, r) THEN NoAlert(TRUE)
    ELSE IF n.reason = "review_requested" THEN reviewRequested(n, r)
    ELSE mention(n, r, username)

\* processThread with the thread marked read whenever its item could not
\* be fetched, whatever the reason
processThreadMarkingFailed(n, r, username) ==
    IF n.reason \notin {"mention", "review_requested"} THEN NoAlert(FALSE)
    ELSE IF n.subject_type \notin {"PullRequest", "Issue"} THEN NoAlert(FALSE)
    ELSE IF r.detail \in {"notfound", "error"} THEN NoAlert(TRUE)
    ELSE IF isClosed(n, r) THEN NoAlert(TRUE)
    ELSE IF n.reason = "review_requested" THEN reviewRequested(n, r)
    ELSE mention(n, r, username)

processThread(n, r, username) ==
    IF n.reason \notin {"mention", "review_requested"} THEN NoAlert(FALSE)
    ELSE IF n.subject_type \notin {"PullRequest", "Issue"} THEN NoAlert(FALSE)
    ELSE IF r.detail = "notfound" THEN NoAlert(TRUE)
    ELSE IF r.detail = "error" THEN NoAlert(FALSE)
    ELSE IF isClosed(n, r) THEN NoAlert(TRUE)
    ELSE IF n.reason = "review_requested" THEN reviewRequested(n, r)
    ELSE mention(n, r, username)

RECURSIVE Flatten(_)
Flatten(ss) == IF ss = <<>> THEN <<>> ELSE Head(ss) \o Flatten(Tail(ss))

(***************************************************************************)
(* The review-request search of checkGitHubNotifications, main.go 574-605. *)
(***************************************************************************)
\* searchAlert with a wording of its own, which names the search
searchAlertOwnWording(pr) ==
    Notification("review_requested",
                 <<"awaits your review", RepoInfo(pr.item), pr.item.title,
                   pr.user>>,
                 pr.item.html_url)

searchAlert(pr) ==
    Notification("review_requested",
                 <<"requested your review", RepoInfo(pr.item), pr.item.title,
                   pr.user>>,
                 pr.item.html_url)

(***************************************************************************)
(* checkGitHubNotifications as a whole, main.go 338-608: what it returns   *)
(* for the listed threads, GitHub answering answers[i] for threads[i],     *)
(* listed is the outcome of Activity.ListNotifications, status that of     *)
(* Search.Issues and prs what the search finds.                            *)
(***************************************************************************)
Returned(notifications, err) == [notifications |-> notifications, err |-> err]

\* checkGitHubNotifications with the 404 of the search answered by an
\* empty list
checkGitHubNotificationsEmptyOn404(listed, threads, answers, status, prs, username) ==
    IF listed = "error" THEN Returned(<<>>, "error")
    ELSE LET fromThreads ==
                 Flatten([i \in DOMAIN threads |->
                             processThread(threads[i], answers[i],
                                           username).out])
             fromSearch == [j \in DOMAIN prs |-> searchAlert(prs[j])]
         IN  CASE status = "ok" -> Returned(fromThreads \o fromSearch, "nil")
               [] status = "notfound" -> Returned(<<>>, "nil")
               [] OTHER -> Returned(<<>>, "error")

checkGitHubNotifications(listed, threads, answers, status, prs, username) ==
    IF listed = "error" THEN Returned(<<>>, "error")
    ELSE LET fromThreads ==
                 Flatten([i \in DOMAIN threads |->
                             processThread(threads[i], answers[i],
                                           username).out])
             fromSearch == [j \in DOMAIN prs |-> searchAlert(prs[j])]
         IN  CASE status = "ok" -> Returned(fromThreads \o fromSearch, "nil")
               [] status = "notfound" -> Returned(fromThreads, "nil")
               [] OTHER -> Returned(<<>>, "error")

(***************************************************************************)
(* Client.GetNotifications of internal/github/notifications.go: one        *)
(* notification per unread thread, nothing else looked up.                 *)
(***************************************************************************)
GetNotificationsOne(n, unread) ==
    LET item == ItemOf(n.number)
    IN  IF unread
        THEN <<Notification(n.reason, <<"[%s] %s", RepoInfo(item), item.title>>,
                            item.url)>>
        ELSE <<>>

(***************************************************************************)
(* The tables.                                                             *)
(*   users              set of chat_id                                     *)
(*   github_accounts    set of rows, UNIQUE(chat_id, username)             *)
(*   sent_notifications bag of rows (the SERIAL id is left out, so two     *)
(*                      rows equal in every column are two copies)         *)
(***************************************************************************)
AccountRow(chatID, username, token, active) ==
    [chat_id |-> chatID, username |-> username, token |-> token,
     is_active |-> active]

Row(chatID, itemURL, notificationType, hash, createdAt) ==
    [chat_id |-> chatID, item_url |-> itemURL,
     notification_type |-> notificationType, content_hash |-> hash,
     created_at |-> createdAt]

Key(chatID, itemURL, notificationType, hash) ==
    [chat_id |-> chatID, item_url |-> itemURL,
     notification_type |-> notificationType, content_hash |-> hash]

KeyOf(row) ==
    Key(row.chat_id, row.item_url, row.notification_type, row.content_hash)

\* main.go 752, cmd/monitor/main.go 142: sha256 of the message, in hex.
\* SHA-256 is taken as collision free: the digest stands for its preimage.
contentHash(message) == <<"sha256", message>>

\* AlertKey with the digest taken of the type and the URL of the
\* notification
AlertKeyOfEvent(chatID, notification) ==
    Key(chatID, notification.URL, notification.Type,
        contentHash(<<notification.Type, notification.URL>>))

AlertKey(chatID, notification) ==
    Key(chatID, notification.URL, notification.Type,
        contentHash(notification.Message))

SetMax(S) == CHOOSE x \in S : \A y \in S : y <= x

\* Matching with the query keyed on the recipient, the item and the type:
\* WHERE chat_id, item_url, notification_type
MatchingWithoutHash(table, key) ==
    {row \in BagToSet(table) :
        /\ row.chat_id = key.chat_id
        /\ row.item_url = key.item_url
        /\ row.notification_type = key.notification_type}

\* SELECT created_at ... WHERE chat_id, item_url, notification_type,
\* content_hash ... ORDER BY created_at DESC LIMIT 1
Matching(table, key) == {row \in BagToSet(table) : KeyOf(row) = key}
LastNotificationTime(table, key) ==
    SetMax({row.created_at : row \in Matching(table, key)})

\* main.go 611-635, the query having succeeded
shouldNotify(table, key, renotify, now) ==
    IF Matching(table, key) = {} THEN TRUE
    ELSE now - LastNotificationTime(table, key) > renotify * Second

\* part_000 212-232, the query having succeeded
ShouldNotify(table, key, renotify, now) ==
    IF Matching(table, key) = {} THEN TRUE
    ELSE now - LastNotificationTime(table, key) > renotify * Hour

RestrictBag(table, rows) == [row \in rows |-> table[row]]

\* cleanOldNotifications with a row that is exactly the cool-down old
\* deleted as well
cleanOldNotificationsInclusive(table, renotify, now) ==
    RestrictBag(table, {row \in BagToSet(table) :
                          ~(row.created_at <= now - Second * renotify)})

\* main.go 654-669
cleanOldNotifications(table, renotify, now) ==
    RestrictBag(table, {row \in BagToSet(table) :
                          ~(row.created_at < now - Second * renotify)})

\* part_000 250-264
CleanOldNotifications(table, renotify, now) ==
    RestrictBag(table, {row \in BagToSet(table) :
                          ~(row.created_at < now - renotify * Hour)})

\* recordNotification as an update in place: the rows of the key give way
\* to the new one
recordNotificationInPlace(table, key, now) ==
    RestrictBag(table, {row \in BagToSet(table) : KeyOf(row) # key})
        (+) SetToBag({Row(key.chat_id, key.item_url, key.notification_type,
                          key.content_hash, now)})

\* main.go 637-652 and part_000 234-248: created_at is CURRENT_TIMESTAMP
recordNotification(table, key, now) ==
    table (+) SetToBag({Row(key.chat_id, key.item_url, key.notification_type,
                            key.content_hash, now)})

\* main.go 118-144 and part_000 79-103: one transaction; failing names
\* the statement that returns an error ("none": all succeed), and the
\* deferred Rollback undoes what the transaction had done
AddGitHubAccount(us, accounts, chatID, token, username, failing) ==
    IF failing # "none"
    THEN [users |-> us, github_accounts |-> accounts,
          err |-> IF failing = "begin"
                  THEN "failed to begin transaction"
                  ELSE IF failing = "user" THEN "failed to insert user"
                  ELSE IF failing = "account"
                       THEN "failed to insert GitHub account"
                  ELSE "commit"]
    ELSE [users |-> us \cup {chatID},
          github_accounts |->
              {a \in accounts :
                  ~(a.chat_id = chatID /\ a.username = username)}
              \cup {AccountRow(chatID, username, token, TRUE)},
          err |-> "nil"]

\* the rows of the ledger hold chat_id as a foreign key to users
\* (main.go 99, part_000 60), with no ON DELETE action: the row of a
\* chat that the ledger refers to cannot be deleted
Referenced(table, chatID) ==
    \E row \in BagToSet(table) : row.chat_id = chatID

\* RemoveGitHubAccount with the account switched off in place of the
\* DELETE of its row
RemoveGitHubAccountSwitchingOff(us, accounts, table, chatID, username, failing) ==
    LET named == {a \in accounts :
                     a.chat_id = chatID /\ a.username = username}
    IN  IF failing = "delete"
        THEN [users |-> us, github_accounts |-> accounts,
              err |-> "failed to remove GitHub account"]
        ELSE [users |-> us,
              github_accounts |->
                  (accounts \ named)
                  \cup {[a EXCEPT !.is_active = FALSE] : a \in named},
              err |-> "nil"]

\* main.go 146-169 and part_000 105-126: three statements, each on its
\* own; failing names the statement that returns an error for a reason
\* of the database ("none": no such reason)
RemoveGitHubAccount(us, accounts, table, chatID, username, failing) ==
    LET left == {a \in accounts :
                    ~(a.chat_id = chatID /\ a.username = username)}
        count == Cardinality({a \in left : a.chat_id = chatID})
    IN  IF failing = "delete"
        THEN [users |-> us, github_accounts |-> accounts,
              err |-> "failed to remove GitHub account"]
        ELSE IF failing = "count"
        THEN [users |-> us, github_accounts |-> left,
              err |-> "failed to count remaining accounts"]
        ELSE IF count # 0
        THEN [users |-> us, github_accounts |-> left, err |-> "nil"]
        ELSE IF failing = "user" \/ Referenced(table, chatID)
        THEN [users |-> us, github_accounts |-> left,
              err |-> "failed to remove user"]
        ELSE [users |-> us \ {chatID}, github_accounts |-> left,
              err |-> "nil"]

\* ToggleGitHubAccount with the UPDATE keyed on the chat alone:
\* WHERE chat_id = $1
ToggleGitHubAccountOfChat(accounts, chatID, username, ok) ==
    LET named == {a \in accounts : a.chat_id = chatID}
    IN  IF ~ok
        THEN [github_accounts |-> accounts,
              err |-> "failed to toggle GitHub account"]
        ELSE IF named = {}
        THEN [github_accounts |-> accounts, err |-> "account not found"]
        ELSE [github_accounts |->
                  (accounts \ named)
                  \cup {[a EXCEPT !.is_active = ~@] : a \in named},
              err |-> "nil"]

\* main.go 171-195 and part_000 128-152: ok = FALSE is the UPDATE
\* returning an error
ToggleGitHubAccount(accounts, chatID, username, ok) ==
    LET named == {a \in accounts :
                     a.chat_id = chatID /\ a.username = username}
    IN  IF ~ok
        THEN [github_accounts |-> accounts,
              err |-> "failed to toggle GitHub account"]
        ELSE IF named = {}
        THEN [github_accounts |-> accounts, err |-> "account not found"]
        ELSE [github_accounts |->
                  (accounts \ named)
                  \cup {[a EXCEPT !.is_active = ~@] : a \in named},
              err |-> "nil"]

\* main.go 76-112: DROP TABLE IF EXISTS sent_notifications, then CREATE
initDatabase(table) == EmptyBag

\* part_000 39-73: CREATE TABLE IF NOT EXISTS sent_notifications
postgresInitDatabase(table) == table

(***************************************************************************)
(* State.                                                                  *)
(***************************************************************************)
VARIABLES
    impl,               \* which build runs
    renotifyInterval,   \* RENOTIFY_INTERVAL as configured
    clock,              \* the time, in seconds
    users,              \* table users
    github_accounts,    \* table github_accounts
    sent_notifications, \* table sent_notifications
    upstream,           \* the account's notification threads at GitHub
    requested,          \* the open pull requests GitHub finds for
                        \* review-requested:<account>
    pc,                 \* position of the notification goroutine
    snapshot,           \* accounts of GetAllUsers not yet visited
    account,            \* the account being processed
    notifications,      \* notifications of the account not yet handled
    shouldNotifyResult, \* what the gate call of this iteration returned
    sendErr,            \* what the send of this iteration returned
    event,              \* a thread under examination
    answer,             \* what GitHub answers for event
    result,             \* what examining event yielded
    searched,           \* how Search.Issues ends while event is examined
    returned,           \* what the fetch of the account of event returns
    watch,              \* history: the key that is observed
    lastDelivery,       \* history: time of the last successful send of watch
    cleaned,            \* history: the sweep has returned in this cycle
    failedPrev,         \* history: a send of watch failed in the previous
                        \* cycle ("failed"), a row of watch was written
                        \* since ("recorded"), watch has come to the gate
                        \* again ("gated")
    failedCur,          \* history: the same for this cycle
    ticker,             \* ticks waiting in ticker.C of notificationWorker
    cancelled,          \* the signal has come: ctx is cancelled, or the
                        \* process was ended
    bot,                \* position of the goroutine that serves the updates
    app,                \* position of main of cmd/monitor
    inFlight,           \* history: executions of the cycle body under way
    visited,            \* history: accounts fetched in this cycle
    fetchFailed,        \* history: the fetch just made returned an error
    skipped,            \* history: the fetch just made left a thread out
                        \* on a failed call and its search succeeded
    suppressed,         \* history: the gate call just made answered false
    mu,                 \* the sync.RWMutex of the store
    calls,              \* where each goroutine is in its call of the store
    storeErr            \* what the last call that changes the registry
                        \* returned

vars ==
    <<impl, renotifyInterval, clock, users, github_accounts,
      sent_notifications, upstream, requested, pc, snapshot, account, notifications,
      shouldNotifyResult, sendErr, event, answer, result, searched,
      returned, watch,
      lastDelivery, cleaned, failedPrev, failedCur, ticker, cancelled, bot,
      app, inFlight, visited, fetchFailed, skipped, suppressed, mu, calls,
      storeErr>>

config == <<impl, renotifyInterval>>
probe == <<event, answer, result, searched, returned>>
registry == <<users, github_accounts>>
locking == <<mu, calls, storeErr>>
github == <<upstream, requested>>
history == <<watch, lastDelivery, cleaned, failedPrev, failedCur>>
runtime == <<ticker, cancelled, bot, app>>
progress == <<inFlight, visited, fetchFailed, skipped, suppressed>>

NoAccount == AccountRow(0, "", "", FALSE)

\* the zero value of sync.RWMutex: no reader, no writer, nobody waiting
Unlocked == [readers |-> 0, writer |-> FALSE, waiting |-> {}]

\* the goroutines that call the store: the one of the poll cycle and the
\* one that serves the commands; neither is in a call
Goroutines == {"worker", "handler"}
NoCall == [fn |-> "", at |-> "idle", args |-> <<>>, rows |-> {}]
Idle == [g \in Goroutines |-> NoCall]

\* main.go 717-720: the loop starts with the sweep;
\* cmd/monitor/main.go 101-107: the worker first waits for the ticker
FirstPc(i) == IF i = "main" THEN "clean" ELSE "wait"

\* history: the single-file build starts in the body of its loop
FirstInFlight(i) == IF i = "main" THEN 1 ELSE 0

\* history: the body of the cycle is left when the goroutine comes to wait
EndCycle(n, next) == IF next = "wait" THEN n - 1 ELSE n

\* the statement after the loop over the accounts:
\* main.go 779 (sleep), cmd/monitor/main.go 173-176 (sweep)
AfterAccounts(i) == IF i = "main" THEN "wait" ELSE "clean"

\* every result GitHub's answers can give for a thread:
\* the notifications it yields and whether it ends up marked read
\* main.go 380-381 and 398-399: the item of a handled thread could not be
\* fetched, for another reason than its absence
DetailFailed(n, r) ==
    /\ n.reason \in {"mention", "review_requested"}
    /\ n.subject_type \in {"PullRequest", "Issue"}
    /\ r.detail = "error"

ThreadResult(n, r, username) ==
    LET res == processThread(n, r, username)
    IN  [out |-> res.out, read |-> res.markCalled /\ r.mark = "ok",
         failed |-> DetailFailed(n, r)]

\* the poll cycle is explored with the items and comments GitHub holds
\* fixed (written by alice, short bodies) and with the second fetch of an
\* item succeeding; the outcome of every other call varies.  SpecClassify
\* explores all the answers.
CycleResponses ==
    {r \in Responses : /\ r.body = ShortBody /\ r.commentBody = ShortBody
                       /\ r.user = "alice" /\ r.second = "ok"}
Requested1 == <<[item |-> PullRequest1, user |-> "alice", page |-> 1]>>

\* the worlds the poll cycle is explored with: the thread of the account
\* and the pull requests that await its review
CycleWorlds ==
    {<<Thread("t1", "review_requested", "PullRequest", 1, ""), Requested1>>,
     <<Thread("t1", "mention", "Issue", 2, ""), <<>> >>,
     <<Thread("t1", "mention", "PullRequest", 1, "pulls"), <<>> >>,
     <<Thread("t1", "mention", "Issue", 2, "other"), <<>> >>,
     <<Thread("t1", "subscribed", "PullRequest", 1, ""), Requested1>>}

ThreadOutcomes ==
    {<<n, ThreadResult(n, r, Recipient)>> :
        n \in ThreadShapes, r \in CycleResponses}
ThreadResults ==
    [n \in ThreadShapes |-> {p[2] : p \in {q \in ThreadOutcomes : q[1] = n}}]

\* the results GitHub's answers can give for a list of threads
\* main.go 342-345 and 576-577: Activity.ListNotifications and
\* Search.Issues are called once, with no page asked for, and answer with
\* the first page of what GitHub holds
FirstPage(listing) == SelectSeq(listing, LAMBDA x : x.page = 1)

\* a thread that is not on the first page is not examined
Unlisted == [out |-> <<>>, read |-> FALSE, failed |-> FALSE]

RECURSIVE ResultsOf(_)
ResultsOf(threads) ==
    IF threads = <<>> THEN {<<>>}
    ELSE {<<x>> \o rest :
             x \in IF Head(threads).page = 1
                   THEN ThreadResults[Head(threads).n] ELSE {Unlisted},
             rest \in ResultsOf(Tail(threads))}

\* what GitHub holds for an account: the threads and the pull requests
\* that await review are those of Recipient, other accounts have none
ThreadsOf(a, up) == IF a.username = Recipient THEN up ELSE <<>>
SearchOf(a, req) == IF a.username = Recipient THEN FirstPage(req) ELSE <<>>

\* GetAllUsers with the flag of every account read as set
GetAllUsersEnabled(us, accounts) ==
    {[a EXCEPT !.is_active = TRUE] : a \in {b \in accounts : b.chat_id \in us}}

\* main.go 197-257 and part_000 154-210: the users that have accounts,
\* each with all its accounts
GetAllUsers(us, accounts) == {a \in accounts : a.chat_id \in us}

\* the keys of the notifications the threads and the search can yield
PossibleNotifications(i, up, req) ==
    IF i = "main"
    THEN UNION {{res.out[j] : j \in DOMAIN res.out} :
                  res \in UNION {ThreadResults[up[k].n] : k \in DOMAIN up}}
         \cup {searchAlert(req[j]) : j \in DOMAIN req}
    ELSE {GetNotificationsOne(up[k].n, TRUE)[1] : k \in DOMAIN up}
PossibleKeys(i, up, req) ==
    {AlertKey(c, n) : c \in ChatIDs, n \in PossibleNotifications(i, up, req)}

\* an issue has no merged flag
PossibleAnswer(n, r) == n.subject_type = "PullRequest" \/ ~r.merged

\* internal/github/notifications.go looks nothing up: only the state of
\* the item varies
ItemAnswers ==
    {r \in Responses :
        /\ r.detail = "ok" /\ r.user = "alice" /\ r.body = ShortBody
        /\ r.second = "ok" /\ r.list = "ok" /\ r.comments = {}
        /\ r.getComment = "ok" /\ r.commentUser = "alice"
        /\ r.commentBody = ShortBody /\ r.mark = "ok"}

\* the table as the program finds it after start-up: empty in the
\* single-file build (main.go 91-92), and in the layered build (part_000 53)
\* either empty or holding the row of an alert of an earlier run, about an
\* item that is no longer in the account's threads
EarlierRows(i) ==
    IF i = "main" THEN {EmptyBag}
    ELSE {EmptyBag}
         \cup {SetToBag({Row(c, Issue2.html_url, "mention",
                              contentHash(<<"[%s] %s", RepoInfo(Issue2),
                                            "T0">>),
                              0)}) : c \in ChatIDs}

NoTime == -1
NoThread == [n |-> Thread("", "", "", 0, ""), unread |-> FALSE, page |-> 1]
NoAnswer == CHOOSE r \in ItemAnswers : r.state = "open" /\ ~r.merged

Init ==
    /\ impl \in Impls
    /\ renotifyInterval \in Intervals
    /\ clock = 0
    /\ users = ChatIDs \cup {OtherChat}
    /\ github_accounts =
           {AccountRow(c, Recipient, t, TRUE) : c \in ChatIDs, t \in Tokens}
           \cup {AccountRow(c, Paused, t, FALSE) : c \in ChatIDs, t \in Tokens}
           \cup {AccountRow(OtherChat, Other, OtherToken, TRUE)}
    /\ sent_notifications \in EarlierRows(impl)
    /\ \E w \in CycleWorlds :
        /\ upstream = <<[n |-> w[1], unread |-> TRUE, page |-> 1]>>
        /\ requested = w[2]
    /\ pc = FirstPc(impl)
    /\ snapshot = {}
    /\ account = NoAccount
    /\ notifications = <<>>
    /\ shouldNotifyResult = "none"
    /\ sendErr = "none"
    /\ event = NoThread
    /\ answer = NoAnswer
    /\ result = NoAlert(FALSE)
    /\ searched = "ok"
    /\ returned = Returned(<<>>, "nil")
    /\ watch \in PossibleKeys(impl, upstream, requested)
    /\ lastDelivery = NoTime
    /\ cleaned = FALSE
    /\ failedPrev = "no"
    /\ failedCur = "no"
    /\ ticker = 0
    /\ cancelled = FALSE
    /\ bot = "listen"
    /\ app = "running"
    /\ inFlight = FirstInFlight(impl)
    /\ visited = {}
    /\ fetchFailed = FALSE
    /\ skipped = FALSE
    /\ suppressed = FALSE
    /\ mu = Unlocked
    /\ calls = Idle
    /\ storeErr = "none"

(***************************************************************************)
(* The notification goroutine: main.go 717-781, and                        *)
(* notificationWorker / processNotifications of cmd/monitor/main.go.       *)
(***************************************************************************)

\* the sweep; ok = FALSE is the DELETE returning an error, which is logged
Clean(ok) ==
    /\ pc = "clean"
    /\ sent_notifications' =
           IF ~ok THEN sent_notifications
           ELSE IF impl = "main"
                THEN cleanOldNotifications(sent_notifications,
                                           renotifyInterval, clock)
                ELSE CleanOldNotifications(sent_notifications,
                                           renotifyInterval, clock)
    /\ cleaned' = TRUE
    /\ pc' = IF impl = "main" THEN "users" ELSE "wait"
    /\ inFlight' = EndCycle(inFlight, pc')
    /\ UNCHANGED <<config, probe, clock, registry, locking, github, snapshot, account,
                   notifications, shouldNotifyResult, sendErr, watch, lastDelivery,
                   failedPrev, failedCur, runtime, visited, fetchFailed,
                   skipped, suppressed>>

\* main.go 724-729, cmd/monitor/main.go 117-120
ReadUsers(ok) ==
    /\ pc = "users"
    /\ IF ok
       THEN /\ snapshot' = GetAllUsers(users, github_accounts)
            /\ pc' = "accounts"
       ELSE /\ snapshot' = {}
            /\ pc' = "wait"
    /\ inFlight' = EndCycle(inFlight, pc')
    /\ visited' = {}
    /\ fetchFailed' = FALSE
    /\ UNCHANGED <<config, probe, clock, registry, locking, sent_notifications, github,
                   account, notifications, shouldNotifyResult, sendErr, history,
                   runtime, skipped, suppressed>>

\* main.go 733-735, cmd/monitor/main.go 126-128
SkipInactive ==
    /\ pc = "accounts"
    /\ \E a \in snapshot :
        /\ ~a.is_active
        /\ snapshot' = snapshot \ {a}
    /\ UNCHANGED <<config, probe, clock, registry, locking, sent_notifications, github, pc,
                   account, notifications, shouldNotifyResult, sendErr, history,
                   runtime, progress>>

\* the loops over users and accounts are exhausted
AccountsDone ==
    /\ pc = "accounts"
    /\ snapshot = {}
    /\ pc' = AfterAccounts(impl)
    /\ account' = NoAccount
    /\ inFlight' = EndCycle(inFlight, pc')
    /\ visited' = {}
    /\ fetchFailed' = FALSE
    /\ skipped' = FALSE
    /\ suppressed' = FALSE
    /\ UNCHANGED <<config, probe, clock, registry, locking, sent_notifications, github,
                   snapshot, notifications, shouldNotifyResult, sendErr, history,
                   runtime>>

\* what the loop does with the notifications of an account
Handle(a, ns) ==
    /\ account' = a
    /\ notifications' = ns
    /\ pc' = IF ns = <<>> THEN "accounts" ELSE "gate"

\* SkipAccount with the loops over the users and the accounts left when a
\* fetch fails
AbandonAccounts(a) ==
    /\ Handle(a, <<>>)
    /\ snapshot' = {}
    /\ fetchFailed' = TRUE

\* main.go 745-748, cmd/monitor/main.go 134-137: the fetch of account a
\* returned an error, which is logged; continue
SkipAccount(a) ==
    /\ Handle(a, <<>>)
    /\ snapshot' = snapshot \ {a}
    /\ fetchFailed' = TRUE

\* main.go 750-776, cmd/monitor/main.go 138-168: the fetch of account a
\* returned ns
TakeAccount(a, ns) ==
    /\ Handle(a, ns)
    /\ snapshot' = snapshot \ {a}
    /\ fetchFailed' = FALSE

\* main.go 737-748 with checkGitHubNotifications, main.go 338-608
CheckGitHubNotifications ==
    /\ pc = "accounts"
    /\ impl = "main"
    /\ \E a \in snapshot :
        /\ a.is_active
        /\ visited' = visited \cup {a}
        /\ \/ \* ListNotifications fails: nil, err
              /\ SkipAccount(a)
              /\ skipped' = FALSE
              /\ UNCHANGED github
           \/ \E res \in ResultsOf(ThreadsOf(a, upstream)),
                 status \in {"ok", "notfound", "error"} :
                /\ upstream' =
                       IF a.username # Recipient THEN upstream
                       ELSE [i \in DOMAIN upstream |->
                                [upstream[i] EXCEPT
                                    !.unread = IF res[i].read THEN FALSE
                                               ELSE @]]
                /\ LET fromThreads ==
                           Flatten([i \in DOMAIN res |-> res[i].out])
                       found == SearchOf(a, requested)
                       fromSearch ==
                           [i \in DOMAIN found |-> searchAlert(found[i])]
                   IN  CASE status = "ok" ->
                                TakeAccount(a, fromThreads \o fromSearch)
                         [] status = "notfound" -> TakeAccount(a, fromThreads)
                         [] OTHER -> SkipAccount(a)
                /\ skipped' = /\ status = "ok"
                              /\ \E i \in DOMAIN res : res[i].failed
                /\ UNCHANGED requested
    /\ suppressed' = FALSE
    /\ UNCHANGED <<config, probe, clock, registry, locking, sent_notifications,
                   shouldNotifyResult, sendErr, history, runtime, inFlight>>

\* cmd/monitor/main.go 131-138 with Client.GetNotifications,
\* internal/github/notifications.go 13-48
GetNotifications ==
    /\ pc = "accounts"
    /\ impl = "monitor"
    /\ \E a \in snapshot :
        /\ a.is_active
        /\ visited' = visited \cup {a}
        /\ \/ \* ListNotifications fails, as it does once ctx is cancelled
              SkipAccount(a)
           \/ /\ ~cancelled
              /\ LET threads == ThreadsOf(a, upstream)
                 IN  TakeAccount(a, Flatten([i \in DOMAIN threads |->
                                     GetNotificationsOne(threads[i].n,
                                                         threads[i].unread)]))
    /\ suppressed' = FALSE
    /\ UNCHANGED <<config, probe, clock, registry, locking, sent_notifications, github,
                   shouldNotifyResult, sendErr, history, runtime, inFlight,
                   skipped>>

\* Continue with the loop over the notifications left when a step fails
Break ==
    /\ notifications' = <<>>
    /\ pc' = "accounts"
    /\ shouldNotifyResult' = "none"
    /\ sendErr' = "none"

\* the iteration over the notifications moves on; shouldNotify and err of
\* main.go 755 and 766 (cmd/monitor/main.go 143 and 156) are declared in the
\* body of the loop and are gone with the iteration
Continue ==
    /\ notifications' = Tail(notifications)
    /\ pc' = IF Tail(notifications) = <<>> THEN "accounts" ELSE "gate"
    /\ shouldNotifyResult' = "none"
    /\ sendErr' = "none"

\* the gate of the build that runs, the query having succeeded
Gate(key) ==
    IF impl = "main"
    THEN shouldNotify(sent_notifications, key, renotifyInterval, clock)
    ELSE ShouldNotify(sent_notifications, key, renotifyInterval, clock)

HeadKey == AlertKey(account.chat_id, Head(notifications))

\* history: the alert whose send failed in the previous cycle has come to
\* the gate again; passed is whether it goes on to the send
NoteGated(failed, key, passed) ==
    IF key = watch /\ failed # "no"
    THEN IF passed THEN "gated" ELSE "no"
    ELSE failed

\* CallShouldNotify with the row of an alert that is held back written
\* again: the gate renews what it finds
CallShouldNotifyRenewing(ok) ==
    /\ pc = "gate"
    /\ notifications # <<>>
    /\ IF ok /\ Gate(HeadKey)
       THEN /\ shouldNotifyResult' = "true"
            /\ sendErr' = "none"
            /\ pc' = "send"
            /\ UNCHANGED <<notifications, sent_notifications>>
       ELSE /\ Continue
            /\ sent_notifications' =
                   IF ok THEN recordNotification(sent_notifications, HeadKey,
                                                 clock)
                   ELSE sent_notifications
    /\ failedPrev' = NoteGated(failedPrev, HeadKey, ok /\ Gate(HeadKey))
    /\ skipped' = FALSE
    /\ suppressed' = (ok /\ ~Gate(HeadKey))
    /\ UNCHANGED <<config, probe, clock, registry, locking, github,
                   snapshot, account, watch, lastDelivery, cleaned, failedCur,
                   runtime, inFlight, visited, fetchFailed>>

\* main.go 750-764, cmd/monitor/main.go 141-149;
\* ok = FALSE is the query returning an error
CallShouldNotify(ok) ==
    /\ pc = "gate"
    /\ notifications # <<>>
    /\ IF ok /\ Gate(HeadKey)
       THEN /\ shouldNotifyResult' = "true"
            /\ sendErr' = "none"
            /\ pc' = "send"
            /\ UNCHANGED notifications
       ELSE Continue
    /\ failedPrev' = NoteGated(failedPrev, HeadKey, ok /\ Gate(HeadKey))
    /\ skipped' = FALSE
    /\ suppressed' = (ok /\ ~Gate(HeadKey))
    /\ UNCHANGED <<config, probe, clock, registry, locking, sent_notifications, github,
                   snapshot, account, watch, lastDelivery, cleaned, failedCur,
                   runtime, inFlight, visited, fetchFailed>>

\* Send with the error of the send ignored: the record step follows a send
\* that failed as it follows one that succeeded
SendIgnoringError(ok) ==
    /\ pc = "send"
    /\ LET key == AlertKey(account.chat_id, Head(notifications))
       IN  /\ sendErr' = IF ok THEN "nil" ELSE "error"
           /\ pc' = "record"
           /\ lastDelivery' =
                  IF ok /\ key = watch THEN clock ELSE lastDelivery
           /\ failedCur' =
                  IF ~ok /\ key = watch THEN "failed" ELSE failedCur
           /\ failedPrev' =
                  IF key = watch /\ failedPrev = "gated" THEN "no"
                  ELSE failedPrev
           /\ UNCHANGED <<notifications, shouldNotifyResult>>
    /\ UNCHANGED <<config, probe, clock, registry, locking, sent_notifications, github,
                   snapshot, account, watch, cleaned, runtime, progress>>

\* Send with the row written before the message is sent: the row is there
\* whether the send succeeds or not
SendAfterRecording(ok) ==
    /\ pc = "send"
    /\ LET key == AlertKey(account.chat_id, Head(notifications))
       IN  /\ sent_notifications' =
                  recordNotification(sent_notifications, key, clock)
           /\ IF ok
              THEN /\ lastDelivery' =
                          IF key = watch THEN clock ELSE lastDelivery
                   /\ UNCHANGED failedCur
              ELSE /\ failedCur' = IF key = watch THEN "failed" ELSE failedCur
                   /\ UNCHANGED lastDelivery
           /\ failedPrev' =
                  IF key = watch /\ failedPrev = "gated" THEN "no"
                  ELSE failedPrev
           /\ Continue
    /\ UNCHANGED <<config, probe, clock, registry, locking, github, snapshot, account,
                   watch, cleaned, runtime, progress>>

\* history: the send that follows the gate has been made
NoteSent(failed, key) ==
    IF key = watch /\ failed = "gated" THEN "no" ELSE failed

\* main.go 766-768 sendTelegramMessage; cmd/monitor/main.go 150-159
\* bot.New and SendNotification
Send(ok) ==
    /\ pc = "send"
    /\ LET key == AlertKey(account.chat_id, Head(notifications))
       IN  IF ok
           THEN /\ sendErr' = "nil"
                /\ pc' = "record"
                /\ lastDelivery' = IF key = watch THEN clock ELSE lastDelivery
                /\ UNCHANGED <<notifications, shouldNotifyResult, failedCur>>
           ELSE /\ Continue
                /\ failedCur' = IF key = watch THEN "failed" ELSE failedCur
                /\ UNCHANGED lastDelivery
    /\ failedPrev' = NoteSent(failedPrev, HeadKey)
    /\ UNCHANGED <<config, probe, clock, registry, locking, sent_notifications, github,
                   snapshot, account, watch, cleaned, runtime, progress>>

\* history: a row for key was written after the failed sends of key
NoteRecorded(failed, key) ==
    IF key = watch /\ failed = "failed" THEN "recorded" ELSE failed

\* main.go 769-773, cmd/monitor/main.go 161-165;
\* ok = FALSE is the INSERT returning an error
Record(ok) ==
    /\ pc = "record"
    /\ LET key == AlertKey(account.chat_id, Head(notifications))
       IN  IF ok
           THEN /\ sent_notifications' =
                       recordNotification(sent_notifications, key, clock)
                /\ failedPrev' = NoteRecorded(failedPrev, key)
                /\ failedCur' = NoteRecorded(failedCur, key)
           ELSE UNCHANGED <<sent_notifications, failedPrev, failedCur>>
    /\ Continue
    /\ UNCHANGED <<config, probe, clock, registry, locking, github, snapshot, account,
                   watch, lastDelivery, cleaned, runtime, progress>>

\* Wait with the body of the cycle dispatched at every tick, whether the
\* body dispatched before has returned or not
WaitDispatching ==
    /\ inFlight < 2
    /\ IF impl = "main" THEN UNCHANGED ticker
       ELSE ticker = 1 /\ ticker' = 0
    /\ pc' = IF impl = "main" THEN "clean" ELSE "users"
    /\ cleaned' = FALSE
    /\ failedPrev' = failedCur
    /\ failedCur' = "no"
    /\ inFlight' = inFlight + 1
    /\ UNCHANGED <<config, probe, clock, registry, locking, sent_notifications, github,
                   snapshot, account, notifications, shouldNotifyResult, sendErr,
                   watch, lastDelivery, cancelled, bot, app, visited,
                   fetchFailed, skipped, suppressed>>

\* main.go 779 time.Sleep has returned; cmd/monitor/main.go 102-106 the
\* select takes a tick from ticker.C, ctx cancelled or not
Wait ==
    /\ pc = "wait"
    /\ IF impl = "main" THEN UNCHANGED ticker
       ELSE ticker = 1 /\ ticker' = 0
    /\ pc' = IF impl = "main" THEN "clean" ELSE "users"
    /\ cleaned' = FALSE
    /\ failedPrev' = failedCur
    /\ failedCur' = "no"
    /\ inFlight' = inFlight + 1
    /\ UNCHANGED <<config, probe, clock, registry, locking, sent_notifications, github,
                   snapshot, account, notifications, shouldNotifyResult, sendErr,
                   watch, lastDelivery, cancelled, bot, app, visited,
                   fetchFailed, skipped, suppressed>>

\* cmd/monitor/main.go 97: the ticker puts a tick into ticker.C, which
\* holds one; until ticker.Stop of line 98.  Nothing reads ticker.C while
\* the body of the cycle runs: a tick that comes during the body is taken
\* to come when the body has reached its last statement.  A goroutine that
\* waits in the select when ctx is cancelled is woken for ctx.Done(): no
\* tick that comes later is taken
TickerFires ==
    /\ impl = "monitor"
    /\ pc = "clean" \/ (pc = "wait" /\ ~cancelled)
    /\ ticker = 0
    /\ ticker' = 1
    /\ UNCHANGED <<config, probe, clock, registry, locking, sent_notifications, github,
                   pc, snapshot, account, notifications, shouldNotifyResult,
                   sendErr, history, cancelled, bot, app, progress>>

\* SIGINT or SIGTERM: cmd/monitor/main.go 57-63 cancels ctx; main.go
\* installs no handler and the process ends with all its goroutines.
\* The notification goroutine of cmd/monitor reads ctx in the fetch of an
\* account and in the select only: a signal that comes elsewhere in the
\* cycle is taken to come when one of the two is next
Signal ==
    /\ ~cancelled
    /\ app = "running"
    /\ impl = "monitor" => pc \in {"accounts", "wait"}
    /\ cancelled' = TRUE
    /\ IF impl = "monitor"
       THEN UNCHANGED <<pc, snapshot, account, notifications,
                        shouldNotifyResult, sendErr, cleaned, failedPrev,
                        failedCur, progress>>
       ELSE /\ pc' = "exited"
            /\ snapshot' = {}
            /\ account' = NoAccount
            /\ notifications' = <<>>
            /\ shouldNotifyResult' = "none"
            /\ sendErr' = "none"
            /\ cleaned' = FALSE
            /\ failedPrev' = "no"
            /\ failedCur' = "no"
            /\ inFlight' = 0
            /\ visited' = {}
            /\ fetchFailed' = FALSE
            /\ skipped' = FALSE
            /\ suppressed' = FALSE
    /\ UNCHANGED <<config, probe, clock, registry, locking, sent_notifications, github,
                   watch, lastDelivery, ticker, bot, app>>

\* cmd/monitor/main.go 103-105: the select takes ctx.Done()
WorkerReturns ==
    /\ impl = "monitor"
    /\ pc = "wait"
    /\ cancelled
    /\ pc' = "done"
    /\ UNCHANGED <<config, probe, clock, registry, locking, sent_notifications, github,
                   snapshot, account, notifications, shouldNotifyResult, sendErr,
                   history, runtime, progress>>

\* history: a send that is more than RENOTIFY_INTERVAL seconds old is
\* forgotten
NoteTime(sent, now) ==
    IF sent # NoTime /\ now - sent > renotifyInterval * Second
    THEN NoTime ELSE sent

\* time passes, by a second or by an hour
Tick(d) ==
    /\ (clock + d) % Hour <= MaxSeconds
    /\ (clock + d) \div Hour <= MaxHours
    /\ clock' = clock + d
    /\ lastDelivery' = NoteTime(lastDelivery, clock + d)
    /\ UNCHANGED <<config, probe, registry, locking, sent_notifications, github, pc,
                   snapshot, account, notifications, shouldNotifyResult, sendErr,
                   watch, cleaned, failedPrev, failedCur, runtime, progress>>

\* the process is started again: main.go 691 NewUserStore -> initDatabase,
\* cmd/monitor/main.go 34 postgres.New -> initDatabase
Restart ==
    /\ sent_notifications' =
           IF impl = "main"
           THEN initDatabase(sent_notifications)
           ELSE postgresInitDatabase(sent_notifications)
    /\ pc' = FirstPc(impl)
    /\ snapshot' = {}
    /\ account' = NoAccount
    /\ notifications' = <<>>
    /\ shouldNotifyResult' = "none"
    /\ sendErr' = "none"
    /\ cleaned' = FALSE
    /\ failedPrev' = "no"
    /\ failedCur' = "no"
    /\ ticker' = 0
    /\ cancelled' = FALSE
    /\ inFlight' = FirstInFlight(impl)
    /\ visited' = {}
    /\ fetchFailed' = FALSE
    /\ skipped' = FALSE
    /\ suppressed' = FALSE
    /\ UNCHANGED <<config, probe, clock, registry, locking, github, watch, lastDelivery,
                   bot, app>>

Next ==
    \/ \E ok \in BOOLEAN : Clean(ok)
    \/ \E ok \in BOOLEAN : ReadUsers(ok)
    \/ SkipInactive
    \/ AccountsDone
    \/ CheckGitHubNotifications
    \/ GetNotifications
    \/ \E ok \in BOOLEAN : CallShouldNotify(ok)
    \/ \E ok \in BOOLEAN : Send(ok)
    \/ \E ok \in BOOLEAN : Record(ok)
    \/ Wait
    \/ TickerFires
    \/ Signal
    \/ WorkerReturns
    \/ \E d \in {Second, Hour} : Tick(d)
    \/ Restart

Spec == Init /\ [][Next]_vars

(***************************************************************************)
(* Shutdown of the layered build, cmd/monitor/main.go 52-89: the           *)
(* notification goroutine together with botWorker and main.  Time stands   *)
(* still: what is explored is the order of the steps.                      *)
(***************************************************************************)
InitShutdown ==
    /\ Init
    /\ impl = "monitor"

\* cmd/monitor/main.go 193-194: the select takes an update
BotUpdate ==
    /\ bot = "listen"
    /\ bot' = "handle"
    /\ UNCHANGED <<config, probe, clock, registry, locking, sent_notifications, github,
                   pc, snapshot, account, notifications, shouldNotifyResult,
                   sendErr, history, ticker, cancelled, app, progress>>

\* cmd/monitor/main.go 195-200: HandleUpdate has returned, with an error
\* or without
BotHandled ==
    /\ bot = "handle"
    /\ bot' = "listen"
    /\ UNCHANGED <<config, probe, clock, registry, locking, sent_notifications, github,
                   pc, snapshot, account, notifications, shouldNotifyResult,
                   sendErr, history, ticker, cancelled, app, progress>>

\* BotReturns with ctx.Done() left out of the select of botWorker
BotKeepsListening ==
    /\ bot = "listen"
    /\ cancelled
    /\ bot' = "listen"
    /\ UNCHANGED <<config, probe, clock, registry, locking, sent_notifications, github,
                   pc, snapshot, account, notifications, shouldNotifyResult,
                   sendErr, history, ticker, cancelled, app, progress>>

\* cmd/monitor/main.go 190-192: the select takes ctx.Done()
BotReturns ==
    /\ bot = "listen"
    /\ cancelled
    /\ bot' = "done"
    /\ UNCHANGED <<config, probe, clock, registry, locking, sent_notifications, github,
                   pc, snapshot, account, notifications, shouldNotifyResult,
                   sendErr, history, ticker, cancelled, app, progress>>

\* cmd/monitor/main.go 87-88: wg.Wait returns once both workers have
\* returned; "Application shutdown complete"
MainCompletes ==
    /\ app = "running"
    /\ pc = "done"
    /\ bot = "done"
    /\ app' = "complete"
    /\ UNCHANGED <<config, probe, clock, registry, locking, sent_notifications, github,
                   pc, snapshot, account, notifications, shouldNotifyResult,
                   sendErr, history, ticker, cancelled, bot, progress>>

\* a step of the body of the cycle: a call of the store, of GitHub or of
\* Telegram returns
CycleStep ==
    \/ \E ok \in BOOLEAN : Clean(ok)
    \/ \E ok \in BOOLEAN : ReadUsers(ok)
    \/ SkipInactive
    \/ AccountsDone
    \/ GetNotifications
    \/ \E ok \in BOOLEAN : CallShouldNotify(ok)
    \/ \E ok \in BOOLEAN : Send(ok)
    \/ \E ok \in BOOLEAN : Record(ok)

NextShutdown ==
    \/ CycleStep
    \/ Wait
    \/ TickerFires
    \/ Signal
    \/ WorkerReturns
    \/ BotUpdate
    \/ BotHandled
    \/ BotReturns
    \/ MainCompletes

\* every call that is outstanding returns and every goroutine that can run
\* does; a select chooses among the cases that are ready at random, so a
\* case that is ready again and again is taken
FairShutdown ==
    /\ WF_vars(CycleStep)
    /\ SF_vars(WorkerReturns)
    /\ WF_vars(BotHandled)
    /\ SF_vars(BotReturns)
    /\ WF_vars(MainCompletes)

SpecShutdown == InitShutdown /\ [][NextShutdown]_vars /\ FairShutdown

(***************************************************************************)
(* Examining one thread on its own: the thread and GitHub's answer are     *)
(* drawn from all the shapes and answers, and the build's operation is     *)
(* applied to them.                                                        *)
(***************************************************************************)
InitClassify ==
    /\ impl \in Impls
    /\ \E n \in ThreadShapes, u \in BOOLEAN :
        /\ event = [n |-> n, unread |-> u, page |-> 1]
        /\ impl = "main" => u
        /\ answer \in {r \in IF impl = "main" THEN Responses ELSE ItemAnswers :
                            PossibleAnswer(n, r)}
    /\ result = NoAlert(FALSE)
    /\ searched \in IF impl = "main" THEN {"ok", "notfound", "error"}
                    ELSE {"ok"}
    /\ returned = Returned(<<>>, "nil")
    /\ renotifyInterval = 1
    /\ clock = 0
    /\ users = ChatIDs
    /\ github_accounts =
           {AccountRow(c, Recipient, t, TRUE) : c \in ChatIDs, t \in Tokens}
    /\ sent_notifications = EmptyBag
    /\ upstream = <<event>>
    /\ requested = IF impl = "main" THEN Requested1 ELSE <<>>
    /\ pc = "examine"
    /\ snapshot = {}
    /\ account = NoAccount
    /\ notifications = <<>>
    /\ shouldNotifyResult = "none"
    /\ sendErr = "none"
    /\ watch = Key(0, "", "", "")
    /\ lastDelivery = NoTime
    /\ cleaned = FALSE
    /\ failedPrev = "no"
    /\ failedCur = "no"
    /\ ticker = 0
    /\ cancelled = FALSE
    /\ bot = "listen"
    /\ app = "running"
    /\ inFlight = 0
    /\ visited = {}
    /\ fetchFailed = FALSE
    /\ skipped = FALSE
    /\ suppressed = FALSE
    /\ mu = Unlocked
    /\ calls = Idle
    /\ storeErr = "none"

\* main.go 350-571 applied to event
ExamineThread ==
    /\ pc = "examine"
    /\ impl = "main"
    /\ result' = processThread(event.n, answer, Recipient)
    /\ returned' = checkGitHubNotifications("ok", <<event.n>>, <<answer>>,
                                            searched, requested, Recipient)
    /\ pc' = "examined"
    /\ UNCHANGED <<config, event, answer, searched, clock, registry, locking,
                   sent_notifications,
                   github, snapshot, account, notifications,
                   shouldNotifyResult, sendErr, history, runtime, progress>>

\* internal/github/notifications.go 30-38 applied to event
ListThread ==
    /\ pc = "examine"
    /\ impl = "monitor"
    /\ result' = [out |-> GetNotificationsOne(event.n, event.unread),
                  markCalled |-> FALSE]
    /\ returned' = Returned(GetNotificationsOne(event.n, event.unread), "nil")
    /\ pc' = "examined"
    /\ UNCHANGED <<config, event, answer, searched, clock, registry, locking,
                   sent_notifications,
                   github, snapshot, account, notifications,
                   shouldNotifyResult, sendErr, history, runtime, progress>>

NextClassify == ExamineThread \/ ListThread

SpecClassify == InitClassify /\ [][NextClassify]_vars

(***************************************************************************)
(* Examining a mention whose text is about as long as the limit.  A text   *)
(* is the sequence of the bytes of its UTF-8 encoding, as a Go string is:  *)
(* "x" is a character of one byte, "c3" "a9" are the two bytes of one      *)
(* character.                                                              *)
(***************************************************************************)
TwoByteChar == <<"c3", "a9">>
Ascii(n) == Rep("x", n)
TwoByte(n) == [i \in 1..(2 * n) |-> IF i % 2 = 1 THEN "c3" ELSE "a9"]

\* the characters of a text: every byte but the continuation bytes begins
\* one
Chars(text) == Len(SelectSeq(text, LAMBDA b : b # "a9"))

Margin == 3
NearLimit == (MaxBodyLen - Margin)..(MaxBodyLen + Margin)

\* texts of one-byte characters, of two-byte characters and of both, with
\* about MaxBodyLen bytes or about MaxBodyLen characters
LimitBodies ==
    {Ascii(n) : n \in NearLimit}
    \cup {TwoByte(n) : n \in {m \in 1..MaxBodyLen : 2 * m \in NearLimit}}
    \cup {Ascii(n - 1) \o TwoByteChar : n \in NearLimit}
    \cup {ShortBody, TwoByte(MaxBodyLen)}

MentionShapes ==
    {Thread("t1", "mention", "Issue", 2, ""),
     Thread("t1", "mention", "PullRequest", 1, ""),
     Thread("t1", "mention", "PullRequest", 1, "issues"),
     Thread("t1", "mention", "PullRequest", 1, "pulls")}

InitBodies ==
    /\ impl \in Impls
    /\ \E n \in MentionShapes, b \in LimitBodies :
        /\ event = [n |-> n, unread |-> TRUE, page |-> 1]
        /\ answer = [NoAnswer EXCEPT !.body = b, !.commentBody = b]
    /\ result = NoAlert(FALSE)
    /\ searched = "ok"
    /\ returned = Returned(<<>>, "nil")
    /\ renotifyInterval = 1
    /\ clock = 0
    /\ users = ChatIDs
    /\ github_accounts =
           {AccountRow(c, Recipient, t, TRUE) : c \in ChatIDs, t \in Tokens}
    /\ sent_notifications = EmptyBag
    /\ upstream = <<event>>
    /\ requested = <<>>
    /\ pc = "examine"
    /\ snapshot = {}
    /\ account = NoAccount
    /\ notifications = <<>>
    /\ shouldNotifyResult = "none"
    /\ sendErr = "none"
    /\ watch = Key(0, "", "", "")
    /\ lastDelivery = NoTime
    /\ cleaned = FALSE
    /\ failedPrev = "no"
    /\ failedCur = "no"
    /\ ticker = 0
    /\ cancelled = FALSE
    /\ bot = "listen"
    /\ app = "running"
    /\ inFlight = 0
    /\ visited = {}
    /\ fetchFailed = FALSE
    /\ skipped = FALSE
    /\ suppressed = FALSE
    /\ mu = Unlocked
    /\ calls = Idle
    /\ storeErr = "none"

SpecBodies == InitBodies /\ [][NextClassify]_vars

(***************************************************************************)
(* The listing of one account on its own: GitHub holds one or two threads  *)
(* and up to two pull requests that await review, spread over the pages of *)
(* its answers, and the build's fetch is applied to them.  Every item is   *)
(* open and written by alice.                                              *)
(***************************************************************************)
PullRequest3 ==
    [kind |-> "PullRequest", owner |-> "o", repo |-> "r", number |-> 3,
     title |-> "T3", html_url |-> "https://github.com/o/r/pull/3",
     url |-> "https://api.github.com/repos/o/r/pulls/3"]

ListedShapes ==
    {Thread("t1", "review_requested", "PullRequest", 1, ""),
     Thread("t1", "mention", "Issue", 2, ""),
     Thread("t1", "mention", "PullRequest", 1, "issues"),
     Thread("t1", "subscribed", "PullRequest", 1, "")}

Pages == {1, 2}

ListedThreads ==
    {[n |-> n, unread |-> u, page |-> p] :
        n \in ListedShapes, u \in BOOLEAN, p \in Pages}

\* what GitHub holds, in the order of its pages
Listings ==
    {<<t>> : t \in {x \in ListedThreads : x.page = 1}}
    \cup {<<t, u>> : t \in {x \in ListedThreads : x.page = 1},
                     u \in ListedThreads}

Searches ==
    {<<>>, Requested1,
     Requested1 \o <<[item |-> PullRequest3, user |-> "alice", page |-> 2]>>}

InitList ==
    /\ impl \in Impls
    /\ upstream \in Listings
    /\ requested \in IF impl = "main" THEN Searches ELSE {<<>>}
    /\ event = NoThread
    /\ answer = NoAnswer
    /\ result = NoAlert(FALSE)
    /\ searched \in IF impl = "main" THEN {"ok", "notfound", "error"}
                    ELSE {"ok"}
    /\ returned = Returned(<<>>, "nil")
    /\ renotifyInterval = 1
    /\ clock = 0
    /\ users = ChatIDs
    /\ github_accounts =
           {AccountRow(c, Recipient, t, TRUE) : c \in ChatIDs, t \in Tokens}
    /\ sent_notifications = EmptyBag
    /\ pc = "list"
    /\ snapshot = {}
    /\ account = NoAccount
    /\ notifications = <<>>
    /\ shouldNotifyResult = "none"
    /\ sendErr = "none"
    /\ watch = Key(0, "", "", "")
    /\ lastDelivery = NoTime
    /\ cleaned = FALSE
    /\ failedPrev = "no"
    /\ failedCur = "no"
    /\ ticker = 0
    /\ cancelled = FALSE
    /\ bot = "listen"
    /\ app = "running"
    /\ inFlight = 0
    /\ visited = {}
    /\ fetchFailed = FALSE
    /\ skipped = FALSE
    /\ suppressed = FALSE
    /\ mu = Unlocked
    /\ calls = Idle
    /\ storeErr = "none"

\* main.go 338-608 applied to what GitHub holds: the first page of the
\* threads and the first page of the search
ListFirstPage ==
    /\ pc = "list"
    /\ impl = "main"
    /\ LET listed == FirstPage(upstream)
       IN  returned' =
               checkGitHubNotifications(
                   "ok", [i \in DOMAIN listed |-> listed[i].n],
                   [i \in DOMAIN listed |-> answer], searched,
                   FirstPage(requested), Recipient)
    /\ pc' = "listed"
    /\ UNCHANGED <<config, event, answer, result, searched, clock, registry, locking,
                   sent_notifications, github, snapshot, account,
                   notifications, shouldNotifyResult, sendErr, history,
                   runtime, progress>>

\* internal/github/notifications.go 24-47 applied to what GitHub holds:
\* the loop asks for page after page until resp.NextPage is 0
ListAllPages ==
    /\ pc = "list"
    /\ impl = "monitor"
    /\ returned' =
           Returned(Flatten([i \in DOMAIN upstream |->
                               GetNotificationsOne(upstream[i].n,
                                                   upstream[i].unread)]),
                    "nil")
    /\ pc' = "listed"
    /\ UNCHANGED <<config, event, answer, result, searched, clock, registry, locking,
                   sent_notifications, github, snapshot, account,
                   notifications, shouldNotifyResult, sendErr, history,
                   runtime, progress>>

NextList == ListFirstPage \/ ListAllPages

SpecList == InitList /\ [][NextList]_vars

(***************************************************************************)
(* The loop over the notifications of one account on its own, main.go      *)
(* 750-776 and cmd/monitor/main.go 141-168: what the fetch returned and    *)
(* the rows the table holds are drawn from alerts that differ in each of   *)
(* the fields of the key, and the steps of the loop are applied to them.   *)
(***************************************************************************)
GateTypes == {"mention", "review_requested"}
GateURLs == {PullRequest1.html_url, Issue2.html_url}
GateMessages ==
    {<<"[%s] %s", RepoInfo(PullRequest1), PullRequest1.title>>,
     <<"[%s] %s", RepoInfo(Issue2), Issue2.title>>}
GateAlerts ==
    {Notification(t, m, u) : t \in GateTypes, m \in GateMessages,
                             u \in GateURLs}
BaseAlert ==
    Notification("mention",
                 <<"[%s] %s", RepoInfo(PullRequest1), PullRequest1.title>>,
                 PullRequest1.html_url)

\* what the fetch of an account returned: one alert, or BaseAlert and one
\* more
GateLists == {<<x>> : x \in GateAlerts} \cup {<<BaseAlert, x>> : x \in GateAlerts}

\* the fields in which two keys differ
Differing(k, l) ==
    {f \in {"chat_id", "item_url", "notification_type", "content_hash"} :
        k[f] # l[f]}

GateKeys == {AlertKey(c, x) : c \in ChatIDs \cup {OtherChat}, x \in GateAlerts}

RowOf(key, createdAt) ==
    Row(key.chat_id, key.item_url, key.notification_type, key.content_hash,
        createdAt)

\* the table when the loop begins: empty, one row written at second 0, or
\* the four rows written at second 0 that differ from BaseAlert for chat 42
\* in one field each
GateTables ==
    {EmptyBag}
    \cup {SetToBag({RowOf(k, 0)}) : k \in GateKeys}
    \cup {SetToBag({RowOf(k, 0) : k \in
              {l \in GateKeys :
                  Cardinality(Differing(l, AlertKey(42, BaseAlert))) = 1}})}

\* a review request that GitHub holds both as a thread and in the result
\* of the search, main.go 424-446 and 574-605; the second fetch of the
\* pull request succeeds or fails
ReviewThread == Thread("t1", "review_requested", "PullRequest", 1, "")
ReviewAnswers == {[NoAnswer EXCEPT !.second = o] : o \in Outcomes}
ReviewList(r) ==
    checkGitHubNotifications("ok", <<ReviewThread>>, <<r>>, "ok", Requested1,
                             Recipient).notifications

InitGate ==
    /\ impl \in Impls
    /\ renotifyInterval \in Intervals
    /\ clock = 0
    /\ users = ChatIDs \cup {OtherChat}
    /\ github_accounts =
           {AccountRow(c, Recipient, t, TRUE) : c \in ChatIDs, t \in Tokens}
           \cup {AccountRow(OtherChat, Other, OtherToken, TRUE)}
    /\ sent_notifications \in GateTables
    /\ upstream = <<>>
    /\ requested = <<>>
    /\ pc = "gate"
    /\ snapshot = {}
    /\ account \in github_accounts
    /\ \/ /\ notifications \in GateLists
          /\ event = NoThread
          /\ answer = NoAnswer
       \/ /\ impl = "main"
          /\ account.username = Recipient
          /\ event = [n |-> ReviewThread, unread |-> TRUE, page |-> 1]
          /\ answer \in ReviewAnswers
          /\ notifications = ReviewList(answer)
    /\ shouldNotifyResult = "none"
    /\ sendErr = "none"
    /\ result = NoAlert(FALSE)
    /\ searched = "ok"
    /\ returned = Returned(notifications, "nil")
    /\ watch = AlertKey(account.chat_id, Head(notifications))
    /\ lastDelivery = NoTime
    /\ cleaned = TRUE
    /\ failedPrev = "no"
    /\ failedCur = "no"
    /\ ticker = 0
    /\ cancelled = FALSE
    /\ bot = "listen"
    /\ app = "running"
    /\ inFlight = 1
    /\ visited = {account}
    /\ fetchFailed = FALSE
    /\ skipped = FALSE
    /\ suppressed = FALSE
    /\ mu = Unlocked
    /\ calls = Idle
    /\ storeErr = "none"

NextGate ==
    \/ \E ok \in BOOLEAN : CallShouldNotify(ok)
    \/ \E ok \in BOOLEAN : Send(ok)
    \/ \E ok \in BOOLEAN : Record(ok)
    \/ \E d \in {Second, Hour} : Tick(d)

SpecGate == InitGate /\ [][NextGate]_vars

(***************************************************************************)
(* Properties.                                                             *)
(***************************************************************************)
\* the cool-down as configured: RENOTIFY_INTERVAL seconds
CoolDown == renotifyInterval * Second

Copies(table, row) == CopiesIn(row, table)
Added(row) == Copies(sent_notifications', row) > Copies(sent_notifications, row)
Removed(row) == Copies(sent_notifications', row) < Copies(sent_notifications, row)
Rows == BagToSet(sent_notifications)
RowsAfter == BagToSet(sent_notifications')

\* C1: two successful sends of the same alert (same chat, URL, type and
\* content hash) are more than the cool-down apart.
C1_CoolDownSeparation ==
    [][(Send(TRUE) /\ HeadKey = watch /\ lastDelivery # NoTime)
          => clock - lastDelivery > CoolDown]_vars

\* C2: a row is written to sent_notifications only by the record step that
\* follows a send of the same alert that returned nil, one row of that alert
\* at a time; a send that returns an error writes nothing.
C2_RecordOnlyAfterSend ==
    [][/\ (\E row \in RowsAfter : Added(row))
          => /\ pc = "record"
             /\ sendErr = "nil"
             /\ sent_notifications' =
                    sent_notifications
                        (+) SetToBag({Row(HeadKey.chat_id, HeadKey.item_url,
                                          HeadKey.notification_type,
                                          HeadKey.content_hash, clock)})
       /\ Send(FALSE) => /\ sent_notifications' = sent_notifications
                         /\ pc' # "record"]_vars

\* the send of the observed alert has failed in this cycle and no row of it
\* is in the table
C2_Witness ==
    /\ failedCur = "failed"
    /\ pc \in {"gate", "accounts"}
    /\ Matching(sent_notifications, watch) = {}

\* C3 as claimed: when the send of an alert failed in the previous cycle and
\* the same alert comes to the gate in this cycle, the gate answers true and
\* the send is attempted.
C3_FailedSendGateTrueNextCycle ==
    [][(/\ CallShouldNotify(TRUE)
        /\ HeadKey = watch
        /\ failedPrev \in {"failed", "recorded"})
          => shouldNotifyResult' = "true" /\ pc' = "send"]_vars

\* C3 as amended: when the send of an alert failed in the previous cycle and
\* no row of the same alert was written after that failure, the gate, its
\* query succeeding, answers true in this cycle and the send is attempted.
C3_FailedSendNotSuppressed ==
    [][(CallShouldNotify(TRUE) /\ HeadKey = watch /\ failedPrev = "failed")
          => shouldNotifyResult' = "true" /\ pc' = "send"]_vars

\* the alert whose send failed in the previous cycle, and of which no row
\* was written, has passed the gate and is about to be sent again
C3_Witness ==
    /\ pc = "send"
    /\ HeadKey = watch
    /\ failedPrev = "gated"
    /\ shouldNotifyResult = "true"
    /\ Matching(sent_notifications, watch) = {}

\* C4: the gate answers true when no row matches the key, and otherwise
\* exactly when now minus the latest created_at of the matching rows is
\* greater than the cool-down.
C4_GateDecision ==
    [][CallShouldNotify(TRUE)
          => (shouldNotifyResult' = "true")
                 = (\/ Matching(sent_notifications, HeadKey) = {}
                    \/ clock - LastNotificationTime(sent_notifications, HeadKey)
                           > CoolDown)]_vars

\* C5: while no new row of a key is written, a gate that answers false
\* keeps answering false up to the latest created_at plus the cool-down,
\* and answers true after it.
C5_GateMonotone ==
    [][(/\ ~Gate(watch)
        /\ \A row \in RowsAfter : KeyOf(row) = watch => ~Added(row))
          => Gate(watch)'
                 = (clock' > LastNotificationTime(sent_notifications, watch)
                                + CoolDown)]_vars

\* C6: in every cycle the sweep has returned before the gate is called.
C6_SweepBeforeGate == pc = "gate" => cleaned

\* C7: a sweep leaves exactly the rows with created_at >= now - cool-down.
C7_SweepExact ==
    [][Clean(TRUE)
          => sent_notifications' =
                 RestrictBag(sent_notifications,
                             {row \in Rows : row.created_at >= clock - CoolDown})]_vars

\* C8: a row leaves sent_notifications only in a sweep, and only when it is
\* older than the cool-down; no other step removes or changes a row.
C8_RowsRemovedOnlyBySweep ==
    [][\A row \in Rows :
          Removed(row) => /\ \E ok \in BOOLEAN : Clean(ok)
                          /\ row.created_at < clock - CoolDown]_vars

\* C9: a thread whose item is closed or merged yields no notification.
C9_StaleSuppressed ==
    (pc = "examined" /\ (answer.state = "closed" \/ answer.merged))
        => result.out = <<>>

\* C10: a mention yields no notification when the author of the description
\* (mention in the description) or of the referenced comment (mention in a
\* comment) is the account itself.
C10_SelfMentionSuppressed ==
    (/\ impl = "main"
     /\ pc = "examined"
     /\ event.n.reason = "mention"
     /\ \/ /\ event.n.latest_comment_url \in {"", "item"}
           /\ answer.user = Recipient
        \/ /\ event.n.latest_comment_url \in {"issues", "pulls"}
           /\ answer.commentUser = Recipient)
        => result.out = <<>>

\* the thread under examination is a mention on an open item whose details
\* were fetched
OpenMention ==
    /\ pc = "examined"
    /\ event.n.reason = "mention"
    /\ event.n.subject_type \in {"PullRequest", "Issue"}
    /\ answer.detail = "ok"
    /\ ~isClosed(event.n, answer)

\* C11: a mention yields no notification when the account has posted a
\* comment on the item after the mention, however many comments the item
\* has and whichever kind of comment it is.
C11_ReplySuppressed ==
    (/\ impl = "main"
     /\ pc = "examined"
     /\ event.n.reason = "mention"
     /\ \E c \in answer.comments : c.login = Recipient /\ c.when = "after")
        => result.out = <<>>

\* C12: a mention that refers to a comment written by somebody else, on an
\* open item, yields a notification when the account's only comments on the
\* item were posted before that comment.
C12_EarlierReplyDoesNotSuppress ==
    (/\ impl = "main"
     /\ OpenMention
     /\ event.n.latest_comment_url \in {"issues", "pulls"}
     /\ answer.getComment = "ok"
     /\ answer.commentUser # Recipient
     /\ \E c \in answer.comments : c.login = Recipient
     /\ \A c \in answer.comments : c.login = Recipient => c.when = "before")
        => result.out # <<>>

\* a call to GitHub that checkGitHubNotifications makes for the thread
\* returns an error other than 404
FetchFailed(n, r, username) ==
    \/ r.detail = "error"
    \/ /\ r.detail = "ok"
       /\ ~isClosed(n, r)
       /\ \/ /\ n.reason = "review_requested"
             /\ n.subject_type = "PullRequest"
             /\ r.second = "error"
          \/ /\ n.reason = "mention"
             /\ \/ r.list = "error"
                \/ /\ ~hasReplied(r, username)
                   /\ \/ /\ n.latest_comment_url \in {"", "item"}
                         /\ r.second = "error"
                      \/ /\ n.latest_comment_url \in {"issues", "pulls"}
                         /\ r.getComment = "error"

\* C14: when a call made for a thread fails with an error other than 404,
\* the thread yields no notification and is not marked read.
C14_FetchFailureSkips ==
    (/\ impl = "main"
     /\ pc = "examined"
     /\ event.n.reason \in {"mention", "review_requested"}
     /\ event.n.subject_type \in {"PullRequest", "Issue"}
     /\ FetchFailed(event.n, answer, Recipient))
        => result = NoAlert(FALSE)

\* C15: a thread whose reason is neither mention nor review_requested
\* yields no notification, and every notification has one of these types.
C15_OnlyHandledReasons ==
    pc = "examined"
        => /\ event.n.reason \notin {"mention", "review_requested"}
                => result.out = <<>>
           /\ \A i \in DOMAIN result.out :
                result.out[i].Type \in {"mention", "review_requested"}

(***************************************************************************)
(* The detailed record of the item of a handled thread is not found.       *)
(***************************************************************************)
DetailMissing ==
    /\ impl = "main"
    /\ pc = "examined"
    /\ event.n.reason \in {"mention", "review_requested"}
    /\ event.n.subject_type \in {"PullRequest", "Issue"}
    /\ answer.detail = "notfound"

\* C13: when the detailed record of the item of a mention or review-request
\* event is not found, the event yields no alert, MarkThreadRead is called
\* for it, and the fetch of the account returns what it returns without the
\* event: the alerts of the search and no error of the event.
C13_MissingItemConsumed ==
    DetailMissing =>
        /\ result = NoAlert(TRUE)
        /\ returned = checkGitHubNotifications("ok", <<>>, <<>>, searched,
                                               requested, Recipient)
        /\ searched # "error" => returned.err = "nil"
        /\ searched = "ok" =>
               returned.notifications =
                   [j \in DOMAIN requested |-> searchAlert(requested[j])]

C13_Witness ==
    /\ DetailMissing
    /\ searched = "ok"
    /\ result.markCalled
    /\ returned.notifications # <<>>

\* the active accounts of the registry
ActiveAccounts == {a \in GetAllUsers(users, github_accounts) : a.is_active}

\* C16: when the fetch of one active account returns an error, only that
\* account is left out: the loop goes on with the accounts that remain, and
\* the loop over the accounts ends only when every active account has been
\* fetched in the cycle.
C16_AccountIsolation ==
    [][/\ ((CheckGitHubNotifications \/ GetNotifications) /\ fetchFailed') =>
              /\ pc' = "accounts"
              /\ snapshot' = snapshot \ {account'}
       /\ AccountsDone => visited = ActiveAccounts]_vars

C16_Witness ==
    /\ fetchFailed
    /\ pc = "accounts"
    /\ \E a \in snapshot : a.is_active /\ a # account

C18_OneCycleInFlight ==
    /\ [](inFlight <= 1)
    /\ [](inFlight = 1 <=> pc \notin {"wait", "done", "exited"})
    /\ [][inFlight' > inFlight => inFlight = 0]_vars

C18_Witness ==
    /\ impl = "monitor"
    /\ ticker = 1
    /\ inFlight = 1

\* C19: once the signal has come, no fetch of an account is made and no
\* cycle begins.
C19_NoProcessingAfterSignal ==
    [][cancelled => ~(CheckGitHubNotifications \/ GetNotifications \/ Wait)]_vars

\* C20: after the signal, the notification worker and the bot worker
\* return and main completes.
C20_ShutdownTerminates ==
    cancelled ~> (pc = "done" /\ bot = "done" /\ app = "complete")

C20_Witness ==
    /\ cancelled
    /\ pc = "done"
    /\ bot = "done"
    /\ app = "complete"

\* C21: a call of the gate leaves sent_notifications as it is, whatever it
\* answers; a call that answers false goes on to the next notification, and
\* neither a send nor a record step is made for the alert it held back.
C21_GateReadOnly ==
    [][/\ (\E ok \in BOOLEAN : CallShouldNotify(ok)) =>
              sent_notifications' = sent_notifications
       /\ ((\E ok \in BOOLEAN : CallShouldNotify(ok)) /\ suppressed') =>
              /\ notifications' = Tail(notifications)
              /\ pc' \in {"gate", "accounts"}
              /\ sendErr' = "none"
       /\ suppressed => ~(\E ok \in BOOLEAN : Send(ok) \/ Record(ok))]_vars

\* the gate has just held an alert back, a row of it being in the table
C21_Witness ==
    /\ suppressed
    /\ pc \in {"gate", "accounts"}
    /\ sent_notifications # EmptyBag

\* the row the record step writes for the notification at the head
HeadRow ==
    Row(HeadKey.chat_id, HeadKey.item_url, HeadKey.notification_type,
        HeadKey.content_hash, clock)

SameAlert ==
    {row \in Rows :
        /\ row.chat_id = account.chat_id
        /\ row.item_url = Head(notifications).URL
        /\ row.notification_type = Head(notifications).Type
        /\ row.content_hash = contentHash(Head(notifications).Message)}

\* C23: the gate holds an alert back only when a row equal to it in chat,
\* item URL, type and content hash is in the table; when no row is equal to
\* it in all four, the gate, its query succeeding, answers true and the
\* alert goes to the send, whatever rows equal in three of the fields the
\* table holds.
C23_FourFieldKey ==
    [][/\ ((\E ok \in BOOLEAN : CallShouldNotify(ok)) /\ suppressed') =>
              SameAlert # {}
       /\ (CallShouldNotify(TRUE) /\ SameAlert = {}) =>
              (shouldNotifyResult' = "true" /\ pc' = "send")]_vars

\* rows written within the cool-down of the build that runs
Recent ==
    {row \in Rows :
        clock - row.created_at
            <= renotifyInterval * (IF impl = "main" THEN Second ELSE Hour)}

\* an alert has passed the gate while, for each of the four fields, a row
\* written within the cool-down differs from it in that field alone
C23_Witness ==
    /\ pc = "send"
    /\ shouldNotifyResult = "true"
    /\ \A f \in {"chat_id", "item_url", "notification_type", "content_hash"} :
           \E row \in Recent : Differing(KeyOf(row), HeadKey) = {f}

\* the content hash the loop computes for the i-th notification of the
\* account
HashOf(i) == AlertKey(account.chat_id, notifications[i]).content_hash

C25_CoolDownInSeconds ==
    [][/\ (CallShouldNotify(TRUE) /\ Matching(sent_notifications, HeadKey) # {}) =>
              (suppressed' <=>
                   clock - LastNotificationTime(sent_notifications, HeadKey)
                       <= renotifyInterval * Second)
       /\ Clean(TRUE) =>
              \A row \in Rows :
                  (row \notin RowsAfter) <=>
                      (clock - row.created_at > renotifyInterval * Second)]_vars

\* C26: a thread that was marked read is not examined in a later cycle:
\* when every thread of the account is marked read, a fetch of the account
\* that succeeds returns no notification of a thread (nothing but what the
\* search finds) and no item of a thread was asked for and failed.
C26_ConsumedNotExaminedAgain ==
    [][(/\ CheckGitHubNotifications \/ GetNotifications
        /\ account'.username = Recipient
        /\ ~fetchFailed'
        /\ \A i \in DOMAIN upstream : ~upstream[i].unread) =>
           /\ notifications' \in
                  {<<>>, [i \in DOMAIN requested |-> searchAlert(requested[i])]}
           /\ ~skipped']_vars

\* C27: a mention whose latest_comment_url holds "/comments/" but is
\* neither an issue-comment nor a review-comment URL yields no notification.
C27_UnknownCommentURLSkipped ==
    (/\ pc = "examined"
     /\ event.n.reason = "mention"
     /\ event.n.latest_comment_url = "other")
        => result.out = <<>>

\* C28: a thread whose item was written by the account itself yields no
\* notification, whatever its reason and whoever wrote the comment a
\* mention refers to.
C28_OwnItemDropped ==
    (/\ impl = "main"
     /\ pc = "examined"
     /\ event.n.subject_type \in {"PullRequest", "Issue"}
     /\ answer.detail = "ok"
     /\ answer.user = Recipient)
        => result.out = <<>>

\* what examining a thread that GitHub holds yields in the build that runs
Expected(t) ==
    IF impl = "main" THEN processThread(t.n, answer, Recipient).out
    ELSE GetNotificationsOne(t.n, t.unread)

Delivered(n) ==
    \E j \in DOMAIN returned.notifications : returned.notifications[j] = n

\* C29: a fetch that succeeds has examined every thread GitHub holds for
\* the account, on whichever page of the listing it is, and, in the build
\* that searches, returns an alert for every pull request the search finds,
\* on whichever page of the result it is.
C29_AllPagesExamined ==
    (pc = "listed" /\ returned.err = "nil") =>
        /\ \A i \in DOMAIN upstream :
               \A k \in DOMAIN Expected(upstream[i]) :
                   Delivered(Expected(upstream[i])[k])
        /\ (impl = "main" /\ searched = "ok") =>
               \A i \in DOMAIN requested : Delivered(searchAlert(requested[i]))

\* the text GitHub holds for the mention under examination, and the text
\* the notification made of it carries
MentionBody ==
    IF event.n.latest_comment_url \in {"", "item"}
    THEN answer.body ELSE answer.commentBody
MentionText == result.out[1].Message[Len(result.out[1].Message)]

EndsInEllipsis(text) ==
    /\ Len(text) >= Len(Ellipsis)
    /\ SubSeq(text, Len(text) - Len(Ellipsis) + 1, Len(text)) = Ellipsis

\* C30: the text of a mention alert is the body as it is when the body has
\* at most 300 characters, and a text of at most 300 characters that ends
\* in "..." when the body has more.
C30_BodyBounded ==
    (/\ impl = "main"
     /\ pc = "examined"
     /\ result.out # <<>>) =>
        IF Chars(MentionBody) > MaxBodyLen
        THEN Chars(MentionText) <= MaxBodyLen /\ EndsInEllipsis(MentionText)
        ELSE MentionText = MentionBody

\* the fetch returned one review request twice, as the alert of its thread
\* and as the alert of the search, and the second of the two is at the
\* head
SecondCopy ==
    /\ event.n.reason = "review_requested"
    /\ Len(returned.notifications) = 2
    /\ Len(notifications) = 1

CommandArgs ==
    {<<c, Recipient>> : c \in ChatIDs} \cup {<<c, Paused>> : c \in ChatIDs}

InitRegistry ==
    /\ Init
    /\ renotifyInterval = 1
    /\ upstream[1].n = Thread("t1", "mention", "Issue", 2, "")
    /\ watch = CHOOSE k \in PossibleKeys(impl, upstream, requested) : TRUE

\* main.go 834-889, part_005 62-84: the arguments are two and, in
\* main.go, GitHub has accepted the token
handleAdd(chatID, token, username, failing) ==
    /\ LET r == AddGitHubAccount(users, github_accounts, chatID, token,
                                 username, failing)
       IN  /\ users' = r.users
           /\ github_accounts' = r.github_accounts
           /\ storeErr' = r.err
    /\ UNCHANGED <<config, probe, clock, sent_notifications, github, pc,
                   snapshot, account, notifications, shouldNotifyResult,
                   sendErr, history, runtime, progress, mu, calls>>

\* main.go 891-911, part_005 86-100
handleRemove(chatID, username, failing) ==
    /\ LET r == RemoveGitHubAccount(users, github_accounts,
                                    sent_notifications, chatID, username,
                                    failing)
       IN  /\ users' = r.users
           /\ github_accounts' = r.github_accounts
           /\ storeErr' = r.err
    /\ UNCHANGED <<config, probe, clock, sent_notifications, github, pc,
                   snapshot, account, notifications, shouldNotifyResult,
                   sendErr, history, runtime, progress, mu, calls>>

\* main.go 913-938, part_005 102-120
handleToggle(chatID, username, ok) ==
    /\ LET r == ToggleGitHubAccount(github_accounts, chatID, username, ok)
       IN  /\ github_accounts' = r.github_accounts
           /\ storeErr' = r.err
    /\ UNCHANGED <<config, probe, clock, users, sent_notifications, github,
                   pc, snapshot, account, notifications, shouldNotifyResult,
                   sendErr, history, runtime, progress, mu, calls>>

NextRegistry ==
    \/ \E ok \in BOOLEAN : Clean(ok)
    \/ \E ok \in BOOLEAN : ReadUsers(ok)
    \/ SkipInactive
    \/ AccountsDone
    \/ CheckGitHubNotifications
    \/ GetNotifications
    \/ \E ok \in BOOLEAN : CallShouldNotify(ok)
    \/ \E ok \in BOOLEAN : Send(ok)
    \/ \E ok \in BOOLEAN : Record(ok)
    \/ Wait
    \/ TickerFires
    \/ \E p \in CommandArgs, t \in Tokens, failing \in {"none", "account"} :
            handleAdd(p[1], t, p[2], failing)
    \/ \E p \in CommandArgs,
          failing \in {"none", "delete", "count", "user"} :
            handleRemove(p[1], p[2], failing)
    \/ \E p \in CommandArgs, ok \in BOOLEAN : handleToggle(p[1], p[2], ok)

SpecRegistry == InitRegistry /\ [][NextRegistry]_vars


\* C32: only active accounts are polled.  The accounts a cycle visits are
\* those of the snapshot it read at its start, with the flags the registry
\* had then; events are fetched and an alert is sent only for an account
\* whose flag is set in that snapshot, so an account that is toggled off is
\* left out from the next cycle on.
Fetches == CheckGitHubNotifications \/ GetNotifications
C32_OnlyActivePolled ==
    [][/\ ReadUsers(TRUE) => snapshot' \subseteq github_accounts
       /\ ~(\E ok \in BOOLEAN : ReadUsers(ok)) => snapshot' \subseteq snapshot
       /\ Fetches => account' \in snapshot /\ account'.is_active
       /\ (\E ok \in BOOLEAN : Send(ok)) => account.is_active]_vars

\* the recipient's account, which had an alert delivered, has been toggled
\* off and the cycle that began afterwards holds it as inactive
C32_Witness ==
    /\ pc = "accounts"
    /\ lastDelivery # NoTime
    /\ storeErr = "nil"
    /\ \E a \in snapshot :
        /\ a.username = Recipient
        /\ ~a.is_active
        /\ a \in github_accounts


(***************************************************************************)
(* The mutex of the store.  Every method of the store takes s.mu at its    *)
(* first statement and releases it, deferred, when it returns; here a call *)
(* is followed step by step: the goroutine reaches Lock or RLock, is let   *)
(* in, and returns.  The goroutine of the poll cycle makes the calls of    *)
(* the cycle in their order for the alert that is observed; the goroutine  *)
(* that serves the updates makes the calls of the commands.                *)
(* sync.RWMutex: Lock waits until no reader and no writer holds the mutex, *)
(* and from the moment Lock is called no RLock is let in until that writer *)
(* has unlocked.                                                           *)
(***************************************************************************)
Writers ==
    {"AddGitHubAccount", "RemoveGitHubAccount", "ToggleGitHubAccount",
     "recordNotification", "cleanOldNotifications"}

CanRLock(m) == ~m.writer /\ m.waiting = {}
CanLock(m) == ~m.writer /\ m.readers = 0
RLock(m) == [m EXCEPT !.readers = @ + 1]
RUnlock(m) == [m EXCEPT !.readers = @ - 1]
Lock(m, g) == [m EXCEPT !.writer = TRUE, !.waiting = @ \ {g}]
Unlock(m) == [m EXCEPT !.writer = FALSE]

\* goroutine g calls method fn and comes to its first statement
StoreCall(g, fn, args) ==
    /\ calls[g].at = "idle"
    /\ calls' = [calls EXCEPT ![g] = [fn |-> fn, at |-> "lock",
                                      args |-> args, rows |-> {}]]
    /\ mu' = IF fn \in Writers THEN [mu EXCEPT !.waiting = @ \cup {g}]
             ELSE mu

\* the call the cycle makes next: main.go 720, 724, 754, 770 and
\* cmd/monitor/main.go 117, 143, 159, 174
WorkerCalls ==
    /\ pc \in {"clean", "users", "gate", "record"}
    /\ StoreCall("worker",
                 CASE pc = "clean" -> "cleanOldNotifications"
                   [] pc = "users" -> "GetAllUsers"
                   [] pc = "gate" -> "shouldNotify"
                   [] OTHER -> "recordNotification",
                 <<>>)
    /\ UNCHANGED <<config, probe, clock, registry, sent_notifications, github,
                   pc, snapshot, account, notifications, shouldNotifyResult,
                   sendErr, history, runtime, progress, storeErr>>

\* the call a command makes: main.go 883, 907, 929 and part_005 76, 92,
\* 108; GetUser is the call of /list, part_005 119.  The statements of
\* the command succeed: what a failing statement leaves behind is
\* explored in SpecRegistry
HandlerCalls ==
    /\ \E p \in CommandArgs :
        \/ \E t \in Tokens :
             StoreCall("handler", "AddGitHubAccount", <<p[1], p[2], t, "none">>)
        \/ StoreCall("handler", "RemoveGitHubAccount", <<p[1], p[2], "none">>)
        \/ StoreCall("handler", "ToggleGitHubAccount", <<p[1], p[2], TRUE>>)
        \/ StoreCall("handler", "GetUser", <<p[1]>>)
    /\ UNCHANGED <<config, probe, clock, registry, sent_notifications, github,
                   pc, snapshot, account, notifications, shouldNotifyResult,
                   sendErr, history, runtime, progress, storeErr>>

\* s.mu.Lock() or s.mu.RLock() of the method returns
Acquire(g) ==
    /\ calls[g].at = "lock"
    /\ IF calls[g].fn \in Writers
       THEN CanLock(mu) /\ mu' = Lock(mu, g)
       ELSE CanRLock(mu) /\ mu' = RLock(mu)
    /\ calls' = [calls EXCEPT ![g].at = "held"]
    /\ UNCHANGED <<config, probe, clock, registry, sent_notifications, github,
                   pc, snapshot, account, notifications, shouldNotifyResult,
                   sendErr, history, runtime, progress, storeErr>>

\* main.go 654-669, part_000 250-264
ReturnClean(ok) ==
    /\ calls["worker"].at = "held"
    /\ calls["worker"].fn = "cleanOldNotifications"
    /\ sent_notifications' =
           IF ~ok THEN sent_notifications
           ELSE IF impl = "main"
                THEN cleanOldNotifications(sent_notifications,
                                           renotifyInterval, clock)
                ELSE CleanOldNotifications(sent_notifications,
                                           renotifyInterval, clock)
    /\ mu' = Unlock(mu)
    /\ calls' = [calls EXCEPT !["worker"] = NoCall]
    /\ pc' = IF impl = "main" THEN "users" ELSE "wait"
    /\ inFlight' = EndCycle(inFlight, pc')
    /\ UNCHANGED <<config, probe, clock, registry, github, snapshot, account,
                   notifications, shouldNotifyResult, sendErr, history,
                   runtime, visited, fetchFailed, skipped, suppressed,
                   storeErr>>

\* main.go 236-240, part_000 191-195: SELECT DISTINCT chat_id FROM users;
\* when it fails GetAllUsers returns the error and the cycle is over
QueryUsers(ok) ==
    /\ calls["worker"].at = "held"
    /\ calls["worker"].fn = "GetAllUsers"
    /\ snapshot' = {}
    /\ IF ok
       THEN /\ calls' = [calls EXCEPT !["worker"].at = "rows",
                                      !["worker"].rows = users]
            /\ UNCHANGED <<mu, pc>>
       ELSE /\ calls' = [calls EXCEPT !["worker"] = NoCall]
            /\ mu' = RUnlock(mu)
            /\ pc' = "wait"
    /\ inFlight' = EndCycle(inFlight, pc')
    /\ UNCHANGED <<config, probe, clock, registry, sent_notifications, github,
                   account, notifications, shouldNotifyResult, sendErr,
                   history, runtime, visited, fetchFailed, skipped,
                   suppressed, storeErr>>

\* main.go 244-250, part_000 199-205: rows.Next() gives a chat and
\* s.GetUser(chatID) is called, the read lock of GetAllUsers being held
CallGetUser ==
    /\ calls["worker"].at = "rows"
    /\ \E c \in calls["worker"].rows :
        calls' = [calls EXCEPT !["worker"].at = "GetUser.lock",
                               !["worker"].args = <<c>>]
    /\ UNCHANGED <<config, probe, clock, registry, sent_notifications, github,
                   pc, snapshot, account, notifications, shouldNotifyResult,
                   sendErr, history, runtime, progress, mu, storeErr>>

\* main.go 198, part_000 155: s.mu.RLock() of GetUser returns
AcquireGetUser ==
    /\ calls["worker"].at = "GetUser.lock"
    /\ CanRLock(mu)
    /\ mu' = RLock(mu)
    /\ calls' = [calls EXCEPT !["worker"].at = "GetUser.held"]
    /\ UNCHANGED <<config, probe, clock, registry, sent_notifications, github,
                   pc, snapshot, account, notifications, shouldNotifyResult,
                   sendErr, history, runtime, progress, storeErr>>

\* main.go 201-229 and 251-253, part_000 158-184 and 206-208: the
\* accounts of the chat are read and appended
ReturnGetUser ==
    /\ calls["worker"].at = "GetUser.held"
    /\ LET c == calls["worker"].args[1]
       IN  /\ snapshot' =
                  snapshot \cup {a \in github_accounts : a.chat_id = c}
           /\ calls' = [calls EXCEPT !["worker"].at = "rows",
                                     !["worker"].rows = @ \ {c},
                                     !["worker"].args = <<>>]
    /\ mu' = RUnlock(mu)
    /\ UNCHANGED <<config, probe, clock, registry, sent_notifications, github,
                   pc, account, notifications, shouldNotifyResult, sendErr,
                   history, runtime, progress, storeErr>>

\* the account the alert that is observed comes from
Watched(accounts) ==
    {a \in accounts :
        /\ a.chat_id = watch.chat_id
        /\ a.username = Recipient
        /\ a.is_active}

\* main.go 256, part_000 210: the rows are exhausted; the loops over
\* what was returned come to the alert of the account, when the account is
\* there and active, and pass the other accounts by
ReturnGetAllUsers ==
    /\ calls["worker"].at = "rows"
    /\ calls["worker"].rows = {}
    /\ mu' = RUnlock(mu)
    /\ calls' = [calls EXCEPT !["worker"] = NoCall]
    /\ snapshot' = {}
    /\ IF Watched(snapshot) # {}
       THEN /\ account' = CHOOSE a \in Watched(snapshot) : TRUE
            /\ pc' = "gate"
       ELSE /\ account' = NoAccount
            /\ pc' = AfterAccounts(impl)
    /\ inFlight' = EndCycle(inFlight, pc')
    /\ UNCHANGED <<config, probe, clock, registry, sent_notifications, github,
                   notifications, shouldNotifyResult, sendErr, history,
                   runtime, visited, fetchFailed, skipped, suppressed,
                   storeErr>>

\* main.go 611-635 and 754-764, part_000 212-232 and cmd/monitor/main.go
\* 143-149; an alert that passes is sent, and then recorded
ReturnShouldNotify(ok) ==
    /\ calls["worker"].at = "held"
    /\ calls["worker"].fn = "shouldNotify"
    /\ shouldNotifyResult' =
           IF ~ok THEN "error" ELSE IF Gate(watch) THEN "true" ELSE "false"
    /\ mu' = RUnlock(mu)
    /\ calls' = [calls EXCEPT !["worker"] = NoCall]
    /\ IF ok /\ Gate(watch)
       THEN pc' = "record" /\ UNCHANGED account
       ELSE pc' = AfterAccounts(impl) /\ account' = NoAccount
    /\ inFlight' = EndCycle(inFlight, pc')
    /\ UNCHANGED <<config, probe, clock, registry, sent_notifications, github,
                   snapshot, notifications, sendErr, history,
                   runtime, visited, fetchFailed, skipped, suppressed,
                   storeErr>>

\* main.go 637-652 and 770-773, part_000 234-248 and cmd/monitor/main.go
\* 159-162
ReturnRecord(ok) ==
    /\ calls["worker"].at = "held"
    /\ calls["worker"].fn = "recordNotification"
    /\ sent_notifications' =
           IF ok THEN recordNotification(sent_notifications, watch, clock)
           ELSE sent_notifications
    /\ mu' = Unlock(mu)
    /\ calls' = [calls EXCEPT !["worker"] = NoCall]
    /\ pc' = AfterAccounts(impl)
    /\ account' = NoAccount
    /\ inFlight' = EndCycle(inFlight, pc')
    /\ UNCHANGED <<config, probe, clock, registry, github, snapshot,
                   notifications, shouldNotifyResult, sendErr, history,
                   runtime, visited, fetchFailed, skipped, suppressed,
                   storeErr>>

\* the method a command called returns, its deferred Unlock or RUnlock
\* with it
ReturnCommand ==
    /\ calls["handler"].at = "held"
    /\ LET fn == calls["handler"].fn
           args == calls["handler"].args
       IN  CASE fn = "AddGitHubAccount" ->
                  LET r == AddGitHubAccount(users, github_accounts, args[1],
                                            args[3], args[2], args[4])
                  IN  /\ users' = r.users
                      /\ github_accounts' = r.github_accounts
                      /\ storeErr' = r.err
                      /\ mu' = Unlock(mu)
             [] fn = "RemoveGitHubAccount" ->
                  LET r == RemoveGitHubAccount(users, github_accounts,
                                               sent_notifications, args[1],
                                               args[2], args[3])
                  IN  /\ users' = r.users
                      /\ github_accounts' = r.github_accounts
                      /\ storeErr' = r.err
                      /\ mu' = Unlock(mu)
             [] fn = "ToggleGitHubAccount" ->
                  LET r == ToggleGitHubAccount(github_accounts, args[1],
                                               args[2], args[3])
                  IN  /\ github_accounts' = r.github_accounts
                      /\ storeErr' = r.err
                      /\ mu' = Unlock(mu)
                      /\ UNCHANGED users
             [] OTHER ->
                  /\ mu' = RUnlock(mu)
                  /\ UNCHANGED <<registry, storeErr>>
    /\ calls' = [calls EXCEPT !["handler"] = NoCall]
    /\ UNCHANGED <<config, probe, clock, sent_notifications, github, pc,
                   snapshot, account, notifications, shouldNotifyResult,
                   sendErr, history, runtime, progress>>

\* a step of the goroutine of the poll cycle
WorkerStep ==
    \/ WorkerCalls
    \/ Acquire("worker")
    \/ \E ok \in BOOLEAN : ReturnClean(ok)
    \/ \E ok \in BOOLEAN : QueryUsers(ok)
    \/ CallGetUser
    \/ AcquireGetUser
    \/ ReturnGetUser
    \/ ReturnGetAllUsers
    \/ \E ok \in BOOLEAN : ReturnShouldNotify(ok)
    \/ \E ok \in BOOLEAN : ReturnRecord(ok)
    \/ Wait
    \/ TickerFires

\* a step of a command that has called the store
CommandStep == Acquire("handler") \/ ReturnCommand

NextStore == WorkerStep \/ HandlerCalls \/ CommandStep

\* a goroutine that can run does; a goroutine that waits for the mutex
\* is let in when the mutex is free for it again and again
FairStore ==
    /\ WF_vars(WorkerStep)
    /\ WF_vars(CommandStep)
    /\ SF_vars(Acquire("worker") \/ AcquireGetUser)
    /\ SF_vars(Acquire("handler"))

SpecStore == InitRegistry /\ [][NextStore]_vars /\ FairStore

\* C33: the store never deadlocks: every call of a method of the store,
\* by the poll cycle or by a command, eventually returns.
C33_EveryStoreCallReturns ==
    \A g \in Goroutines : (calls[g].at # "idle") ~> (calls[g].at = "idle")


\* C34: RemoveGitHubAccount is all-or-nothing.  When it returns an error
\* the registry is as it was; when it returns success the account is gone
\* and the row of the user is gone exactly when no account of the chat
\* remains.
WithoutAccount(chatID, username) ==
    {a \in github_accounts :
        ~(a.chat_id = chatID /\ a.username = username)}
C34_RemoveAllOrNothing ==
    [][\A p \in CommandArgs, failing \in {"none", "delete", "count", "user"} :
         handleRemove(p[1], p[2], failing) =>
            IF storeErr' # "nil"
            THEN UNCHANGED registry
            ELSE /\ github_accounts' = WithoutAccount(p[1], p[2])
                 /\ p[1] \in users' <=>
                        /\ p[1] \in users
                        /\ \E a \in github_accounts' : a.chat_id = p[1]]_vars



\* C35: the sweep never removes a row the gate would still use to
\* suppress.  In a build, a row the sweep deletes is one that, taken as the
\* last delivery of its key, makes the gate answer true already; and for
\* every key the gate answers the same after the sweep as before it.
GateOn(table, key) ==
    IF impl = "main" THEN shouldNotify(table, key, renotifyInterval, clock)
    ELSE ShouldNotify(table, key, renotifyInterval, clock)
SweptKeys == {KeyOf(row) : row \in Rows} \cup {watch}
C35_SweepKeepsGateDecisions ==
    [][(\E ok \in BOOLEAN : Clean(ok)) =>
          /\ \A row \in Rows :
                Removed(row) => GateOn(SetToBag({row}), KeyOf(row))
          /\ \A key \in SweptKeys :
                GateOn(sent_notifications', key)
                    = GateOn(sent_notifications, key)]_vars

\* the sweep has come to a table that holds a row old enough to be deleted
\* and, of the same key, the row of a later delivery that still suppresses
C35_Witness ==
    /\ pc = "clean"
    /\ \E old \in Rows, new \in Rows :
        /\ KeyOf(old) = KeyOf(new)
        /\ GateOn(SetToBag({old}), KeyOf(old))
        /\ ~GateOn(sent_notifications, KeyOf(old))
        /\ cleanOldNotifications(sent_notifications, renotifyInterval, clock)
               = SetToBag({new})


\* C36: MarkThreadRead is called for an event only when the event is
\* dropped because its item is not found, closed or merged, already
\* replied to, or a mention by the account itself; it is not called for an
\* event that yields an alert, nor for one that is skipped because its
\* item could not be fetched for another reason.
DroppedNotFound == answer.detail = "notfound"
DroppedClosed == answer.detail = "ok" /\ isClosed(event.n, answer)
DroppedReplied ==
    /\ answer.detail = "ok"
    /\ event.n.reason = "mention"
    /\ answer.list = "ok"
    /\ \E c \in answer.comments :
        c.kind = "issue" /\ c.page = 1 /\ c.login = Recipient
DroppedSelfMention ==
    /\ answer.detail = "ok"
    /\ event.n.reason = "mention"
    /\ \/ /\ event.n.latest_comment_url \in {"", "item"}
          /\ answer.second = "ok"
          /\ answer.user = Recipient
       \/ /\ event.n.latest_comment_url \in {"issues", "pulls"}
          /\ answer.getComment = "ok"
          /\ answer.commentUser = Recipient
C36_MarkedOnlyWhenDropped ==
    pc = "examined" =>
        /\ result.markCalled =>
              /\ result.out = <<>>
              /\ event.n.reason \in {"mention", "review_requested"}
              /\ \/ DroppedNotFound
                 \/ DroppedClosed
                 \/ DroppedReplied
                 \/ DroppedSelfMention
        /\ result.out # <<>> => ~result.markCalled
        /\ DetailFailed(event.n, answer) => ~result.markCalled

\* an open item whose mention was written by the account itself has been
\* examined: no alert, and the thread is marked read
C36_Witness ==
    /\ pc = "examined"
    /\ result.markCalled
    /\ DroppedSelfMention
    /\ ~DroppedClosed
    /\ ~DroppedReplied


\* C37: the alerts built from the raw events of an account are returned
\* whether or not the review-request search succeeds: what the call
\* returns begins with the notifications of the examined thread, and the
\* call returns no error on their account.
C37_EventAlertsSurviveSearchFailure ==
    pc = "examined" =>
        /\ Len(returned.notifications) >= Len(result.out)
        /\ SubSeq(returned.notifications, 1, Len(result.out)) = result.out
        /\ result.out # <<>> => returned.err = "nil"

\* C37, as the call ends: when the search succeeds or is answered with
\* 404 the call returns the notifications of the examined thread, first
\* in the list, and no error; when the search fails otherwise the call
\* returns the error and no notification.
C37_EventAlertsUnlessSearchFails ==
    pc = "examined" =>
        IF searched = "error"
        THEN returned = Returned(<<>>, "error")
        ELSE /\ returned.err = "nil"
             /\ Len(returned.notifications) >= Len(result.out)
             /\ SubSeq(returned.notifications, 1, Len(result.out))
                    = result.out

\* a thread has yielded a notification, the search was answered with 404
\* and the call has returned that notification
C37_Witness ==
    /\ pc = "examined"
    /\ searched = "notfound"
    /\ result.out # <<>>
    /\ returned = Returned(result.out, "nil")


\* C38: ToggleGitHubAccount flips the flag of the named account of the
\* chat and nothing else: every other account stays as it is, no account
\* appears or goes, the token of the named account and the users stay;
\* toggling once more gives the registry back; and for an account that is
\* not there it returns "account not found" and changes nothing.
Named(chatID, username) ==
    {a \in github_accounts : a.chat_id = chatID /\ a.username = username}
C38_ToggleFlipsOneFlag ==
    [][\A p \in CommandArgs :
         handleToggle(p[1], p[2], TRUE) =>
            /\ users' = users
            /\ github_accounts \ Named(p[1], p[2]) \subseteq github_accounts'
            /\ Cardinality(github_accounts') = Cardinality(github_accounts)
            /\ \A a \in Named(p[1], p[2]) :
                  /\ storeErr' = "nil"
                  /\ AccountRow(a.chat_id, a.username, a.token, ~a.is_active)
                         \in github_accounts'
            /\ ToggleGitHubAccount(github_accounts', p[1], p[2],
                                   TRUE).github_accounts = github_accounts
            /\ Named(p[1], p[2]) = {} =>
                  /\ storeErr' = "account not found"
                  /\ UNCHANGED registry]_vars

\* the recipient's account has been toggled off, the paused account of
\* the chat has been removed, and toggling it has answered that it is not
\* there
C38_Witness ==
    /\ storeErr = "account not found"
    /\ \E c \in ChatIDs, t \in Tokens :
        /\ AccountRow(c, Recipient, t, FALSE) \in github_accounts
        /\ Named(c, Paused) = {}


\* C39: once RemoveGitHubAccount has returned for an account, no alert of
\* that account is delivered any more, not even by the cycle that was
\* under way: every alert that is sent is of an account the registry
\* holds at the time of the send.
C39_NoAlertAfterRemoval ==
    [][Send(TRUE) => Named(account.chat_id, account.username) # {}]_vars

\* C39, as the cycle works: when RemoveGitHubAccount returns without an
\* error the account is out of the registry; a cycle that begins reads
\* the accounts the registry holds then, and visits and alerts for no
\* other account until the next cycle begins.  An account removed while a
\* cycle is under way is out of every later cycle.
C39_NoAlertFromNextCycleOn ==
    [][/\ \A p \in CommandArgs,
             failing \in {"none", "delete", "count", "user"} :
            (handleRemove(p[1], p[2], failing) /\ storeErr' = "nil") =>
                \A a \in github_accounts' :
                    ~(a.chat_id = p[1] /\ a.username = p[2])
       /\ ReadUsers(TRUE) =>
            \A a \in snapshot' : Named(a.chat_id, a.username) # {}
       /\ ~(\E ok \in BOOLEAN : ReadUsers(ok)) =>
            /\ snapshot' \subseteq snapshot
            /\ account' \in snapshot \cup {account, NoAccount}
       /\ (\E ok \in BOOLEAN : Send(ok)) => account # NoAccount]_vars

\* the recipient's account, which had an alert delivered, has been
\* removed, and the cycle that began afterwards has read the registry
\* without it
C39_Witness ==
    /\ pc = "accounts"
    /\ lastDelivery # NoTime
    /\ storeErr = "nil"
    /\ visited = {}
    /\ snapshot # {}
    /\ snapshot = GetAllUsers(users, github_accounts)
    /\ \A c \in ChatIDs : Named(c, Recipient) = {}

====
